---- MODULE Spec2Model ----
(***************************************************************************)
(* Enshrined-Relayers: the TypeScript relayer (relayer.ts), its canonical  *)
(* encoding and bitmap helpers (canonical.ts, bitmap.ts), and the          *)
(* destination-side verification entry point the documentation describes.  *)
(*                                                                         *)
(* Strings are sequences of one-character strings, byte arrays are         *)
(* sequences of numbers in 0..255.                                         *)
(***************************************************************************)
EXTENDS Integers, Sequences, FiniteSets, TLC

VARIABLES
    valset,         \* relayer: the ValsetSnapshot.signers returned by getValsetSnapshot
    daemonKeys,     \* signing daemons: daemon -> set of operators in its KeyStore.Keys
    daemonPos,      \* collectSignatures: per daemon, index of the signer being asked (0 = finished)
    signatures,     \* collectSignatures: the shared `signatures` array, in push order
    phase,          \* relayer: position inside processMessage
    proof,          \* submitToDestination: deliverMsg.value.proof
    args,           \* pure-function harness: the arguments of the call
    ret,            \* pure-function harness: what the call returned
    routeNonces,    \* destination: route_nonces/{route}, the expected next nonce
    consumedNonces, \* destination: consumed_nonces/{route}/{nonce}
    routeLock,      \* destination: per route, the submission being verified (0 = none)
    attempts,       \* destination: the submissions made to the verification entry point
    deliverEvents,  \* destination: the EventHyperlaneDeliver events emitted, in order
    keyStore,       \* signing daemon: Server.keyStore.Keys, operator -> private key hex
    signLog,        \* signing daemon: the requests served and their responses, in order
    keyUses,        \* signing daemon: how many times a private key was parsed for signing
    running,        \* relayer: Relayer.running
    pollTimer,      \* relayer: a poll timer is pending
    processedMessages, \* relayer: Relayer.processedMessages
    poll,           \* relayer: the position of the poll in flight
    calls,          \* relayer: the processMessage invocations and what each did, in order
    connecting,     \* relayer: start() calls awaiting connectToChains
    inFlight,       \* relayer: poll callbacks awaiting processNewMessages
    timers,         \* relayer: poll timers set and neither fired nor cleared
    lastCall,       \* relayer: the last of start() and stop() to be called
    starts          \* relayer: how many times start() was called

vars == <<valset, daemonKeys, daemonPos, signatures, phase, proof, args, ret,
          routeNonces, consumedNonces, routeLock, attempts, deliverEvents,
          keyStore, signLog, keyUses,
          running, pollTimer, processedMessages, poll, calls,
          connecting, inFlight, timers, lastCall, starts>>

relayerVars == <<valset, daemonKeys, daemonPos, signatures, phase, proof>>
harnessVars == <<args, ret>>
destVars == <<routeNonces, consumedNonces, routeLock, attempts, deliverEvents>>
signerVars == <<keyStore, signLog, keyUses>>
pollVars == <<running, pollTimer, processedMessages, poll, calls>>
lifeVars == <<connecting, inFlight, timers, lastCall, starts>>

----------------------------------------------------------------------------
(* Bounds *)

MaxSigners == 3      \* longest valset.signers list
MaxDaemons == 2      \* number of configured validatorSigners urls

----------------------------------------------------------------------------
(* Generic helpers *)

Range(s) == {s[i] : i \in 1..Len(s)}

SeqsUpTo(S, n) == UNION {[1..k -> S] : k \in 0..n}

Pow2(n) == 2 ^ n

----------------------------------------------------------------------------
(* canonical.ts: address normalisation and signer ordering *)

\* The characters operator identifiers are written in; "1" is the bech32 separator.
Alphabet == {"a", "b", "1"}

CharVal(c) == CASE c = "a" -> 1 [] c = "b" -> 2 [] OTHER -> 3

\* An injective numbering of character strings (bijective base-4 numeration).
RECURSIVE Code(_)
Code(s) == IF s = <<>> THEN 0 ELSE Code(SubSeq(s, 1, Len(s) - 1)) * 4 + CharVal(s[Len(s)])

\* createHash('sha256').update(data).digest(): three symbols stand for the 32
\* bytes. The function is injective on strings of up to four characters (an odd
\* multiplier modulo 256 permutes 0..255) and does not preserve their order.
Sha256(data) ==
    LET h == (Code(data) * 37 + 11) % 256
    IN  <<h \div 16, h % 16, Len(data)>>

\* String.prototype.split('1')
RECURSIVE Split1(_)
Split1(s) ==
    IF \A i \in 1..Len(s) : s[i] # "1" THEN <<s>>
    ELSE LET i == CHOOSE j \in 1..Len(s) : s[j] = "1" /\ \A k \in 1..(j - 1) : s[k] # "1"
         IN  <<SubSeq(s, 1, i - 1)>> \o Split1(SubSeq(s, i + 1, Len(s)))

\* getAddressBytes throws unless the split gives exactly two parts
AddressAccepted(bech32Addr) == Len(Split1(bech32Addr)) = 2

\* getAddressBytes: the first 20 of the 32 bytes of sha256(part after the separator)
getAddressBytes(bech32Addr) == SubSeq(Sha256(Split1(bech32Addr)[2]), 1, 2)

\* Buffer.compare: -1, 0 or 1 by byte-lexicographic order
RECURSIVE BufferCompare(_, _)
BufferCompare(a, b) ==
    IF a = <<>> /\ b = <<>> THEN 0
    ELSE IF a = <<>> THEN -1
    ELSE IF b = <<>> THEN 1
    ELSE IF a[1] < b[1] THEN -1
    ELSE IF a[1] > b[1] THEN 1
    ELSE BufferCompare(Tail(a), Tail(b))

\* a comparator on the voting power
CompareByPower(a, b) == IF a.power < b.power THEN -1 ELSE IF a.power > b.power THEN 1 ELSE 0

\* the comparator both sorts use
CompareSigners(a, b) ==
    BufferCompare(getAddressBytes(a.operator), getAddressBytes(b.operator))

\* Array.prototype.sort is stable: an element goes after every element it does
\* not compare below.
RECURSIVE InsertSorted(_, _)
InsertSorted(sorted, x) ==
    IF sorted = <<>> THEN <<x>>
    ELSE IF CompareSigners(x, sorted[1]) < 0 THEN <<x>> \o sorted
    ELSE <<sorted[1]>> \o InsertSorted(Tail(sorted), x)

RECURSIVE StableSort(_)
StableSort(s) ==
    IF s = <<>> THEN <<>>
    ELSE InsertSorted(StableSort(SubSeq(s, 1, Len(s) - 1)), s[Len(s)])

\* The comparator runs (and getAddressBytes may throw) only when there are at
\* least two elements to compare.
SortThrows(signers) ==
    Len(signers) >= 2 /\ \E i \in 1..Len(signers) : ~AddressAccepted(signers[i].operator)

\* getSortedSignerOrder: [...signers].sort(comparator); "throw" when getAddressBytes throws
getSortedSignerOrder(signers) ==
    IF SortThrows(signers) THEN "throw" ELSE StableSort(signers)

\* encodeUvarint: low byte with the continuation bit while value >= 0x80, then value >>>= 7
RECURSIVE encodeUvarint(_)
encodeUvarint(value) ==
    IF value >= 128
    THEN <<(IF (value % 256) >= 128 THEN value % 256 ELSE (value % 256) + 128)>>
         \o encodeUvarint(value \div 128)
    ELSE <<value % 256>>

\* encodeWithLength: the uvarint of data.length, then data
encodeWithLength(data) == encodeUvarint(Len(data)) \o data

\* DataView.setBigUint64(0, BigInt(v), false): 8 bytes big-endian; the values
\* modelled stay below 2^24, so the five high bytes are zero.
U64BigEndian(v) ==
    <<0, 0, 0, 0, 0, (v \div 65536) % 256, (v \div 256) % 256, v % 256>>

\* what computeValsetHash pushes for one signer
EncodeSigner(signer) ==
    encodeWithLength(getAddressBytes(signer.operator))
        \o encodeWithLength(signer.attestationPubkey)
        \o encodeWithLength(U64BigEndian(signer.power))

RECURSIVE ConcatSigners(_)
ConcatSigners(sortedSigners) ==
    IF sortedSigners = <<>> THEN <<>>
    ELSE EncodeSigner(sortedSigners[1]) \o ConcatSigners(Tail(sortedSigners))

\* createHash('sha256') over a byte array whose digest is only ever compared for
\* equality: the digest is represented by its preimage (no collisions).
Sha256OfBytes(bytes) == <<"sha256", bytes>>

\* results of calls that may throw
Returned(v) == [threw |-> FALSE, value |-> v]
Threw == [threw |-> TRUE, value |-> <<>>]

\* computeValsetHash: sort with the same comparator, encode every signer (which
\* calls getAddressBytes again, also for a single signer), hash once
computeValsetHash(signers) ==
    IF \E i \in 1..Len(signers) : ~AddressAccepted(signers[i].operator)
    THEN Threw
    ELSE Returned(Sha256OfBytes(ConcatSigners(StableSort(signers))))

----------------------------------------------------------------------------
(* canonical.ts: the message digest. A 64-bit quantity is written as four
   16-bit limbs, most significant first; a JavaScript number holding an
   integer up to 2^64 as five limbs, the first being the 2^64 carry. *)

\* new TextEncoder().encode(s) for the characters used
Utf8Char(c) ==
    CASE c = "a" -> 97 [] c = "b" -> 98 [] c = "1" -> 49 [] c = "|" -> 124
      [] c = "h" -> 104 [] c = "y" -> 121 [] c = "p" -> 112 [] c = "e" -> 101
      [] c = "r" -> 114 [] c = "l" -> 108 [] c = "n" -> 110

TextEncode(str) == [i \in 1..Len(str) |-> Utf8Char(str[i])]

\* encodeStringWithLength
encodeStringWithLength(str) == encodeWithLength(TextEncode(str))

\* position of the highest set bit of a limb
Msb(x) == CHOOSE b \in 0..15 : Pow2(b) <= x /\ x < Pow2(b + 1)

\* limbs whose lowest limb may have reached 65536, carried upwards
CarryUp(limbs) ==
    LET s0 == limbs[4]
        s1 == limbs[3] + (s0 \div 65536)
        s2 == limbs[2] + (s1 \div 65536)
        s3 == limbs[1] + (s2 \div 65536)
    IN  <<s3 \div 65536, s3 % 65536, s2 % 65536, s1 % 65536, s0 % 65536>>

\* parseInt(text) of the decimal text of a 64-bit value: the nearest double
\* (53 significant bits, ties to even); exact below 2^53
ParseInt(limbs) ==
    IF limbs[1] < 32 THEN <<0>> \o limbs
    ELSE LET k == Msb(limbs[1]) - 4
             q == limbs[4] \div Pow2(k)
             r == limbs[4] % Pow2(k)
             half == Pow2(k - 1)
             up == r > half \/ (r = half /\ q % 2 = 1)
         IN  CarryUp([limbs EXCEPT ![4] = (q + (IF up THEN 1 ELSE 0)) * Pow2(k)])

\* DataView.setBigUint64(0, BigInt(number), false): the value modulo 2^64 as
\* 8 bytes, big-endian
SetBigUint64(number) ==
    <<number[2] \div 256, number[2] % 256, number[3] \div 256, number[3] % 256,
      number[4] \div 256, number[4] % 256, number[5] \div 256, number[5] % 256>>

\* a preimage with two fields in each other's place
MessagePreimageReordered(msg) ==
    encodeStringWithLength(msg.originChainId)
        \o encodeStringWithLength(msg.destChainId)
        \o encodeWithLength(SetBigUint64(msg.nonce))
        \o encodeStringWithLength(msg.recipientModule)
        \o encodeStringWithLength(msg.senderModule)
        \o encodeWithLength(msg.body)
        \o encodeWithLength(SetBigUint64(msg.valsetId))

\* what computeMessageDigest pushes to data, concatenated
MessagePreimage(msg) ==
    encodeStringWithLength(msg.originChainId)
        \o encodeStringWithLength(msg.destChainId)
        \o encodeWithLength(SetBigUint64(msg.nonce))
        \o encodeStringWithLength(msg.senderModule)
        \o encodeStringWithLength(msg.recipientModule)
        \o encodeWithLength(msg.body)
        \o encodeWithLength(SetBigUint64(msg.valsetId))

\* computeMessageDigest: one hash over the concatenation; nothing in it throws
\* for a message whose numbers are integers from 0 to 2^64
computeMessageDigest(msg) == Sha256OfBytes(MessagePreimage(msg))

----------------------------------------------------------------------------
(* bitmap.ts *)

\* (byte & (1 << bitPos)) !== 0
BitIsSet(byte, bitPos) == (byte \div Pow2(bitPos)) % 2 = 1

\* a most-significant-bit-first layout
OrBitMsbFirst(byte, bitPos) ==
    IF BitIsSet(byte, 7 - bitPos) THEN byte ELSE byte + Pow2(7 - bitPos)

\* byte | (1 << bitPos)
OrBit(byte, bitPos) == IF BitIsSet(byte, bitPos) THEN byte ELSE byte + Pow2(bitPos)

\* new Uint8Array(n)
ZeroBytes(n) == [i \in 1..n |-> 0]

\* a loop body that sets every bit the byte array has room for
SetIndexUnchecked(bitmap, idx, totalValidators) ==
    IF idx >= 0 /\ idx < 8 * Len(bitmap)
    THEN [bitmap EXCEPT ![(idx \div 8) + 1] = OrBit(@, idx % 8)]
    ELSE bitmap

\* the body of createBitmap's loop for one idx: out-of-range indices are skipped
SetIndex(bitmap, idx, totalValidators) ==
    IF idx >= 0 /\ idx < totalValidators
    THEN LET byteIdx == idx \div 8
             bitPos  == idx % 8
         IN  [bitmap EXCEPT ![byteIdx + 1] = OrBit(@, bitPos)]
    ELSE bitmap

RECURSIVE CreateBitmapLoop(_, _, _)
CreateBitmapLoop(bitmap, validatorIndices, totalValidators) ==
    IF validatorIndices = <<>> THEN bitmap
    ELSE CreateBitmapLoop(SetIndex(bitmap, validatorIndices[1], totalValidators),
                          Tail(validatorIndices), totalValidators)

\* createBitmap(validatorIndices, totalValidators); Math.ceil(totalValidators / 8) bytes
createBitmap(validatorIndices, totalValidators) ==
    CreateBitmapLoop(ZeroBytes((totalValidators + 7) \div 8), validatorIndices, totalValidators)

\* a decoder that does not stop at totalValidators
RECURSIVE ParseNoLimit(_, _, _)
ParseNoLimit(bitmap, totalValidators, p) ==
    IF p >= 8 * Len(bitmap) THEN <<>>
    ELSE (IF BitIsSet(bitmap[(p \div 8) + 1], p % 8) THEN <<p>> ELSE <<>>)
         \o ParseNoLimit(bitmap, totalValidators, p + 1)

\* parseBitmap's two loops, flattened: position p is byteIdx * 8 + bitPos; the
\* inner break skips every position at or beyond totalValidators.
RECURSIVE ParseFrom(_, _, _)
ParseFrom(bitmap, totalValidators, p) ==
    IF p >= 8 * Len(bitmap) THEN <<>>
    ELSE IF p >= totalValidators THEN <<>>
    ELSE (IF BitIsSet(bitmap[(p \div 8) + 1], p % 8) THEN <<p>> ELSE <<>>)
         \o ParseFrom(bitmap, totalValidators, p + 1)

parseBitmap(bitmap, totalValidators) == ParseFrom(bitmap, totalValidators, 0)

\* number of set bits of a byte array, padding bits included
PopCount(bitmap) ==
    Cardinality({p \in 0..(8 * Len(bitmap) - 1) : BitIsSet(bitmap[(p \div 8) + 1], p % 8)})

----------------------------------------------------------------------------
(* Signing daemon as the relayer sees it *)

\* keys.SignDigest with the operator's private key over the digest being
\* collected for; one value per key.
SignDigest(operator) == <<"sig", operator>>

\* base64.StdEncoding.EncodeToString / Buffer.from(s, 'base64')
Base64Encode(bytes) == <<"b64", bytes>>
Base64Decode(text) == text[2]

----------------------------------------------------------------------------
(* Destination chain storage before any submission *)

MaxAttempts == 2     \* number of submissions made to the entry point
MaxNonce == 3        \* largest nonce a submission carries

\* "origin|dest|recipient"
Routes == {"orgchain|dstchain|demo", "orgchain|dstchain|bank"}

Attempts == 1..MaxAttempts

NoAttempt ==
    [pc |-> "idle", route |-> "", nonce |-> 0, kind |-> "",
     arrivedExpecting |-> 0, expecting |-> 0, replayed |-> FALSE, result |-> ""]

\* the signing daemon before it is started, and the relayer's polling loop
\* before start()
SignerIdle ==
    /\ keyStore = <<>>
    /\ signLog = <<>>
    /\ keyUses = 0

LifeIdle ==
    /\ connecting = 0
    /\ inFlight = 0
    /\ timers = 0
    /\ lastCall = "none"
    /\ starts = 0

PollIdle ==
    /\ running = FALSE
    /\ pollTimer = FALSE
    /\ processedMessages = {}
    /\ poll = [pc |-> "none"]
    /\ calls = <<>>

DestIdle ==
    /\ routeNonces = [r \in Routes |-> 1]
    /\ consumedNonces = {}
    /\ routeLock = [r \in Routes |-> 0]
    /\ attempts = [a \in Attempts |-> NoAttempt]
    /\ deliverEvents = <<>>

----------------------------------------------------------------------------
(* relayer.ts: collectSignatures and submitToDestination *)

Daemons == 1..MaxDaemons

\* Operator identifiers a snapshot may carry: two that differ only before the
\* separator, others with their own address part, one without a separator.
OperatorPool ==
    { <<"a", "1", "a">>, <<"b", "1", "a">>, <<"a", "1", "b">>, <<"a", "1">>, <<"a", "b">> }

\* a compressed curve point: the prefix byte 0x02 and a byte that differs per operator
PubkeyOf(op) == <<2, Code(op)>>

Signer(op) == [operator |-> op, attestationPubkey |-> PubkeyOf(op), power |-> 10]

NextPos(i) == IF i < Len(valset) THEN i + 1 ELSE 0

InitRelayer ==
    /\ valset \in SeqsUpTo({Signer(op) : op \in OperatorPool}, MaxSigners)
    /\ daemonKeys \in [Daemons -> SUBSET {valset[i].operator : i \in 1..Len(valset)}]
    /\ daemonPos = [d \in Daemons |-> IF valset = <<>> THEN 0 ELSE 1]
    /\ signatures = <<>>
    /\ phase = "collecting"
    /\ proof = "none"
    /\ args = "none"
    /\ ret = "none"
    /\ DestIdle
    /\ SignerIdle
    /\ PollIdle
    /\ LifeIdle

\* axios.post(.../sign) answers with a signature: push it and leave the loop
DaemonSigns(d) ==
    /\ phase = "collecting"
    /\ daemonPos[d] > 0
    /\ LET signer == valset[daemonPos[d]]
       IN  /\ signer.operator \in daemonKeys[d]
           /\ signatures' = Append(signatures,
                  [operatorAddress |-> signer.operator,
                   signature |-> Base64Encode(SignDigest(signer.operator))])
    /\ daemonPos' = [daemonPos EXCEPT ![d] = 0]
    /\ UNCHANGED <<valset, daemonKeys, phase, proof, harnessVars, destVars, signerVars, pollVars, lifeVars>>

\* the request fails (no key: 404, timeout, connection error): try the next signer
DaemonFails(d) ==
    /\ phase = "collecting"
    /\ daemonPos[d] > 0
    /\ daemonPos' = [daemonPos EXCEPT ![d] = NextPos(@)]
    /\ UNCHANGED <<valset, daemonKeys, signatures, phase, proof, harnessVars, destVars, signerVars, pollVars, lifeVars>>

\* Promise.race in place of Promise.allSettled: the first daemon to end settles the batch
AnySettled == \E d \in Daemons : daemonPos[d] = 0

\* await Promise.allSettled(signaturePromises)
AllSettled == \A d \in Daemons : daemonPos[d] = 0

\* collectSignatures throws 'Failed to collect any signatures'
CollectNothing ==
    /\ phase = "collecting"
    /\ AllSettled
    /\ signatures = <<>>
    /\ phase' = "failed"
    /\ UNCHANGED <<valset, daemonKeys, daemonPos, signatures, proof, harnessVars, destVars, signerVars, pollVars, lifeVars>>

\* sortedSigners.findIndex(s => s.operator === operatorAddress), 0-based, -1 if absent
FindIndex(sortedSigners, operatorAddress) ==
    IF \E i \in 1..Len(sortedSigners) : sortedSigners[i].operator = operatorAddress
    THEN (CHOOSE i \in 1..Len(sortedSigners) :
            /\ sortedSigners[i].operator = operatorAddress
            /\ \A j \in 1..(i - 1) : sortedSigners[j].operator # operatorAddress) - 1
    ELSE -1

\* the loop of submitToDestination: the signatures whose operator is found, in
\* the order of the signatures array
RECURSIVE FoundSignatures(_, _)
FoundSignatures(sigs, sortedSigners) ==
    IF sigs = <<>> THEN <<>>
    ELSE (IF FindIndex(sortedSigners, sigs[1].operatorAddress) >= 0
          THEN <<sigs[1]>> ELSE <<>>) \o FoundSignatures(Tail(sigs), sortedSigners)

BuildProof(sigs, signers) ==
    LET sortedSigners == getSortedSignerOrder(signers)
        found == FoundSignatures(sigs, sortedSigners)
        validatorIndices ==
            [k \in 1..Len(found) |-> FindIndex(sortedSigners, found[k].operatorAddress)]
        signatureBytes == [k \in 1..Len(found) |-> Base64Decode(found[k].signature)]
    IN  [bitmap |-> createBitmap(validatorIndices, Len(sortedSigners)),
         signatures |-> signatureBytes]

\* submitToDestination throws because getSortedSignerOrder does
SubmitThrows ==
    /\ phase = "collecting"
    /\ AllSettled
    /\ signatures # <<>>
    /\ SortThrows(valset)
    /\ phase' = "failed"
    /\ UNCHANGED <<valset, daemonKeys, daemonPos, signatures, proof, harnessVars, destVars, signerVars, pollVars, lifeVars>>

\* submitToDestination builds the deliver message
SubmitToDestination ==
    /\ phase = "collecting"
    /\ AllSettled
    /\ signatures # <<>>
    /\ ~SortThrows(valset)
    /\ proof' = BuildProof(signatures, valset)
    /\ phase' = "submitted"
    /\ UNCHANGED <<valset, daemonKeys, daemonPos, signatures, harnessVars, destVars, signerVars, pollVars, lifeVars>>

NextRelayer ==
    \/ \E d \in Daemons : DaemonSigns(d)
    \/ \E d \in Daemons : DaemonFails(d)
    \/ CollectNothing
    \/ SubmitThrows
    \/ SubmitToDestination

SpecRelayer == InitRelayer /\ [][NextRelayer]_vars

----------------------------------------------------------------------------
(* Proofs built by the relayer *)

\* the validator a proof's k-th signature is paired with by the bitmap
SignerOfBit(k) == getSortedSignerOrder(valset)[parseBitmap(proof.bitmap, Len(valset))[k] + 1]

\* C1: every proof built by submitToDestination has as many set bitmap bits as
\* signatures.
C1_BitsEqualSignatures ==
    phase = "submitted" => PopCount(proof.bitmap) = Len(proof.signatures)

\* C2: in every proof built, signature k is the signature of the validator at
\* the k-th set bit of the bitmap in ascending order (for every k that has both
\* a signature and a set bit; C1 is about their number).
C2_SignaturesInBitOrder ==
    phase = "submitted" =>
        \A k \in 1..Len(proof.signatures) :
            k <= Len(parseBitmap(proof.bitmap, Len(valset))) =>
                proof.signatures[k] = SignDigest(SignerOfBit(k).operator)

----------------------------------------------------------------------------
(* Calls of the pure functions: the arguments are drawn in the initial state,
   an action performs the call. The relayer is idle meanwhile. *)

RelayerIdle ==
    /\ valset = <<>>
    /\ daemonKeys = [d \in Daemons |-> {}]
    /\ daemonPos = [d \in Daemons |-> 0]
    /\ signatures = <<>>
    /\ phase = "idle"
    /\ proof = "none"

\* the ascending sequence of a finite set of numbers
RECURSIVE SortedSeq(_)
SortedSeq(S) ==
    IF S = {} THEN <<>>
    ELSE LET m == CHOOSE x \in S : \A y \in S : x <= y
         IN  <<m>> \o SortedSeq(S \ {m})

(* bitmap.ts: createBitmap, then parseBitmap of what it returned *)

NegIndices == 1      \* how far below zero the indices passed to createBitmap go
MaxIndex == 9        \* largest index passed to createBitmap
MaxIndices == 3      \* longest validatorIndices array
MaxTotal == 10       \* largest totalValidators

InitBitmap ==
    /\ RelayerIdle
    /\ DestIdle
    /\ SignerIdle
    /\ PollIdle
    /\ LifeIdle
    /\ args \in [validatorIndices : SeqsUpTo((0 - NegIndices)..MaxIndex, MaxIndices),
                 totalValidators : 0..MaxTotal]
    /\ ret = [step |-> "start"]

CallCreateBitmap ==
    /\ ret.step = "start"
    /\ ret' = [step |-> "created",
               bitmap |-> createBitmap(args.validatorIndices, args.totalValidators)]
    /\ UNCHANGED <<args, relayerVars, destVars, signerVars, pollVars, lifeVars>>

CallParseBitmap ==
    /\ ret.step = "created"
    /\ ret' = [step |-> "parsed",
               bitmap |-> ret.bitmap,
               indices |-> parseBitmap(ret.bitmap, args.totalValidators)]
    /\ UNCHANGED <<args, relayerVars, destVars, signerVars, pollVars, lifeVars>>

NextBitmap == CallCreateBitmap \/ CallParseBitmap

SpecBitmap == InitBitmap /\ [][NextBitmap]_vars

\* C3: parseBitmap(createBitmap(S, totalMembers), totalMembers) is S sorted
\* ascending, for any indices S and any totalMembers.
C3_BitmapRoundTrip ==
    ret.step = "parsed" => ret.indices = SortedSeq(Range(args.validatorIndices))

\* bit (i mod 8), counted from the least significant bit, of byte floor(i / 8)
LayoutBit(bitmap, i) == (bitmap[(i \div 8) + 1] \div (2 ^ (i % 8))) % 2 = 1

\* ceil(n / 8)
CeilDiv8(n) == CHOOSE b \in 0..n : 8 * b >= n /\ 8 * b < n + 8

\* C15: createBitmap returns ceil(totalMembers / 8) bytes in which, for every
\* index i below totalMembers, bit (i mod 8) from the least significant bit of
\* byte floor(i / 8) is set exactly when i is one of the input indices.
C15_BitmapLayout ==
    ret.step \in {"created", "parsed"} =>
        /\ Len(ret.bitmap) = CeilDiv8(args.totalValidators)
        /\ \A i \in 0..(args.totalValidators - 1) :
               LayoutBit(ret.bitmap, i) <=> i \in Range(args.validatorIndices)

\* createBitmap([.. 0 .. 9 ..], 10) returned two bytes with bit 0 of byte 0
\* and bit 1 of byte 1 set
C15_Witness ==
    /\ ret.step = "created"
    /\ args.totalValidators = 10
    /\ Range(args.validatorIndices) = {0, 9}
    /\ ret.bitmap = <<1, 2>>

\* C16: createBitmap returns no bitmap when an input index is >= totalMembers.
C16_OutOfRangeRejected ==
    (\E k \in 1..Len(args.validatorIndices) :
         args.validatorIndices[k] >= args.totalValidators)
        => ret.step = "start"

(* bitmap.ts: parseBitmap of any byte array *)

MaxBytes == 2        \* longest byte array passed to parseBitmap

\* the byte values the arrays are made of: every single bit, none, all, mixed
ByteValues == {0, 1, 2, 4, 8, 16, 32, 64, 128, 129, 85, 170, 255}

InitParse ==
    /\ RelayerIdle
    /\ DestIdle
    /\ SignerIdle
    /\ PollIdle
    /\ LifeIdle
    /\ args \in [bitmap : SeqsUpTo(ByteValues, MaxBytes),
                 totalValidators : 0..MaxTotal]
    /\ ret = [step |-> "start"]

CallParseBitmapOnly ==
    /\ ret.step = "start"
    /\ ret' = [step |-> "parsed",
               indices |-> parseBitmap(args.bitmap, args.totalValidators)]
    /\ UNCHANGED <<args, relayerVars, destVars, signerVars, pollVars, lifeVars>>

NextParse == CallParseBitmapOnly

SpecParse == InitParse /\ [][NextParse]_vars

\* C17: parseBitmap of any byte array returns, strictly ascending, exactly the
\* indices below totalMembers whose bit is set; bits at or beyond totalMembers
\* give no index, and an array shorter than ceil(totalMembers / 8) is parsed
\* without an error.
C17_ParseBitmap ==
    /\ ret.step = "start" => ENABLED NextParse
    /\ ret.step = "parsed" =>
           /\ ret.indices =
                  SortedSeq({i \in 0..(args.totalValidators - 1) :
                                 i < 8 * Len(args.bitmap) /\ LayoutBit(args.bitmap, i)})
           /\ \A k \in 1..(Len(ret.indices) - 1) : ret.indices[k] < ret.indices[k + 1]

\* two bytes with every bit set were parsed for three members: the five
\* padding bits and the extra byte gave no index
C17_Witness ==
    /\ ret.step = "parsed"
    /\ args.bitmap = <<255, 255>>
    /\ args.totalValidators = 3
    /\ ret.indices = <<0, 1, 2>>

(* canonical.ts: getSortedSignerOrder and computeValsetHash of a validator list
   and of a permutation of it *)

MaxMembers == 3      \* longest validator list

Powers == {10, 20}

Members == {[operator |-> op, attestationPubkey |-> PubkeyOf(op), power |-> pw] :
                op \in OperatorPool, pw \in Powers}

IndexPermutations(n) == {p \in [1..n -> 1..n] : \A i, j \in 1..n : p[i] = p[j] => i = j}

Shuffles(list) == {[i \in 1..Len(list) |-> list[p[i]]] : p \in IndexPermutations(Len(list))}

OrderOf(signers) ==
    IF SortThrows(signers) THEN Threw ELSE Returned(getSortedSignerOrder(signers))

InitValset ==
    /\ RelayerIdle
    /\ DestIdle
    /\ SignerIdle
    /\ PollIdle
    /\ LifeIdle
    /\ \E list \in SeqsUpTo(Members, MaxMembers) :
           \E shuffled \in Shuffles(list) :
               args = [signers |-> list, shuffled |-> shuffled]
    /\ ret = [step |-> "start"]

\* the caller's array after the call: [...signers] sorts a copy
SignersAfterSort(signers) == signers

CallGetSortedSignerOrder ==
    /\ ret.step = "start"
    /\ ret' = [step |-> "ordered",
               order |-> OrderOf(args.signers),
               signersAfter |-> SignersAfterSort(args.signers),
               orderShuffled |-> OrderOf(args.shuffled)]
    /\ UNCHANGED <<args, relayerVars, destVars, signerVars, pollVars, lifeVars>>

CallComputeValsetHash ==
    /\ ret.step = "ordered"
    /\ ret' = [step |-> "hashed",
               order |-> ret.order,
               signersAfter |-> ret.signersAfter,
               orderShuffled |-> ret.orderShuffled,
               hash |-> computeValsetHash(args.signers),
               hashShuffled |-> computeValsetHash(args.shuffled)]
    /\ UNCHANGED <<args, relayerVars, destVars, signerVars, pollVars, lifeVars>>

NextValset == CallGetSortedSignerOrder \/ CallComputeValsetHash

SpecValset == InitValset /\ [][NextValset]_vars

\* C4: the commitment hash and the signer order of a validator list are those
\* of every permutation of it.
C4_HashIndependentOfInputOrder ==
    ret.step = "hashed" =>
        /\ ret.hash = ret.hashShuffled
        /\ ret.order = ret.orderShuffled

\* two members of the list have the same sort key
HasEqualSortKeys(signers) ==
    \E i, j \in 1..Len(signers) :
        /\ i # j
        /\ AddressAccepted(signers[i].operator)
        /\ AddressAccepted(signers[j].operator)
        /\ getAddressBytes(signers[i].operator) = getAddressBytes(signers[j].operator)

\* C6: ordering or hashing a validator list in which two members have the same
\* sort key fails with an error.
C6_DuplicateSortKeyFails ==
    (ret.step = "hashed" /\ HasEqualSortKeys(args.signers)) =>
        /\ ret.order.threw
        /\ ret.hash.threw

MaxIdLen == 3        \* longest operator identifier

Ids == SeqsUpTo(Alphabet, MaxIdLen)

AddressOf(id) == IF AddressAccepted(id) THEN Returned(getAddressBytes(id)) ELSE Threw

InitAddress ==
    /\ RelayerIdle
    /\ DestIdle
    /\ SignerIdle
    /\ PollIdle
    /\ LifeIdle
    /\ args \in [a : Ids, b : Ids]
    /\ ret = [step |-> "start"]

CallGetAddressBytes ==
    /\ ret.step = "start"
    /\ ret' = [step |-> "normalized", a |-> AddressOf(args.a), b |-> AddressOf(args.b)]
    /\ UNCHANGED <<args, relayerVars, destVars, signerVars, pollVars, lifeVars>>

NextAddress == CallGetAddressBytes

SpecAddress == InitAddress /\ [][NextAddress]_vars

\* C5: two distinct operator identifiers that getAddressBytes accepts have
\* different normalized address bytes.
C5_DistinctIdsDistinctKeys ==
    (ret.step = "normalized" /\ args.a # args.b /\ ~ret.a.threw /\ ~ret.b.threw) =>
        ret.a.value # ret.b.value

(* canonical.ts: encodeUvarint and encodeWithLength. A length of 2^31 or more
   is written as high * 65536 + low with low below 65536. *)

\* encodeUvarint of high * 65536 + low: value >>>= 7 keeps the low 32 bits of
\* value before it shifts, so only high % 65536 survives the first shift
encodeUvarintWide(high, low) ==
    IF high = 0 THEN encodeUvarint(low)
    ELSE <<(IF (low % 256) >= 128 THEN low % 256 ELSE (low % 256) + 128)>>
         \o encodeUvarint((high % 65536) * 512 + (low \div 128))

MaxLength == 300     \* largest length below 65536 given to encodeUvarint

\* lengths of 65536, 2^31, 2^32 - 1, 2^32, 2^32 + 1 and 2^33 + 129
WideLengths == {<<1, 0>>, <<32768, 0>>, <<65535, 65535>>, <<65536, 0>>, <<65536, 1>>,
                <<131072, 129>>}

\* the byte arrays given to encodeWithLength
LengthPrefixedData ==
    SeqsUpTo({0, 128, 255}, 2) \cup {ZeroBytes(127), ZeroBytes(128), ZeroBytes(300)}

InitEncode ==
    /\ RelayerIdle
    /\ DestIdle
    /\ SignerIdle
    /\ PollIdle
    /\ LifeIdle
    /\ \/ \E low \in 0..MaxLength : args = [call |-> "encodeUvarint", high |-> 0, low |-> low]
       \/ \E w \in WideLengths : args = [call |-> "encodeUvarint", high |-> w[1], low |-> w[2]]
       \/ \E data \in LengthPrefixedData : args = [call |-> "encodeWithLength", data |-> data]
    /\ ret = [step |-> "start"]

CallEncodeUvarint ==
    /\ ret.step = "start"
    /\ args.call = "encodeUvarint"
    /\ ret' = [step |-> "encoded", bytes |-> encodeUvarintWide(args.high, args.low)]
    /\ UNCHANGED <<args, relayerVars, destVars, signerVars, pollVars, lifeVars>>

CallEncodeWithLength ==
    /\ ret.step = "start"
    /\ args.call = "encodeWithLength"
    /\ ret' = [step |-> "encoded", bytes |-> encodeWithLength(args.data)]
    /\ UNCHANGED <<args, relayerVars, destVars, signerVars, pollVars, lifeVars>>

NextEncode == CallEncodeUvarint \/ CallEncodeWithLength

SpecEncode == InitEncode /\ [][NextEncode]_vars

\* the standard unsigned LEB128 varint of high * 65536 + low: groups of 7 bits,
\* least significant first, the continuation bit on every byte but the last
RECURSIVE Leb128(_, _)
Leb128(high, low) ==
    IF high = 0 /\ low < 128 THEN <<low>>
    ELSE <<128 + (low % 128)>>
         \o Leb128(high \div 128, (high % 128) * 512 + (low \div 128))

\* C21: encodeUvarint(n) is the standard unsigned LEB128 varint of n for every
\* length n >= 0, and encodeWithLength(data) is the varint of the length of
\* data followed by data unchanged (one zero byte for empty data).
C21_StandardVarint ==
    ret.step = "encoded" =>
        IF args.call = "encodeUvarint"
        THEN ret.bytes = Leb128(args.high, args.low)
        ELSE /\ ret.bytes = Leb128(0, Len(args.data)) \o args.data
             /\ args.data = <<>> => ret.bytes = <<0>>

(* canonical.ts: computeMessageDigest of a HyperlaneMessage *)

MaxStrLen == 1          \* longest chain identifier or module name
MaxBodyBytes == 32768   \* Params.MaxBodyBytes, the message size limit (32KB)

Strings == SeqsUpTo({"a", "b"}, MaxStrLen)

\* nonces 1, 65536 and 2^53, valset ids 2 and 258, as JavaScript numbers
MessageNonces == {<<0, 0, 0, 0, 1>>, <<0, 0, 0, 1, 0>>, <<0, 32, 0, 0, 0>>}
MessageValsetIds == {<<0, 0, 0, 0, 2>>, <<0, 0, 0, 0, 258>>}

\* empty, "h", "hello", and the shortest body whose length takes two prefix bytes
SmallBodies == {<<>>, <<104>>, <<104, 101, 108, 108, 111>>, ZeroBytes(128)}

\* a body of exactly the size limit, and one a byte longer
LargeBodies == {ZeroBytes(MaxBodyBytes), ZeroBytes(MaxBodyBytes + 1)}

Messages ==
    [originChainId : Strings, destChainId : Strings, nonce : MessageNonces,
     senderModule : Strings, recipientModule : Strings, body : SmallBodies,
     valsetId : MessageValsetIds]
    \cup
    [originChainId : {<<"a">>}, destChainId : {<<"b">>}, nonce : {<<0, 0, 0, 0, 1>>},
     senderModule : {<<"a">>}, recipientModule : {<<"b">>}, body : LargeBodies,
     valsetId : {<<0, 0, 0, 0, 2>>}]

InitDigest ==
    /\ RelayerIdle
    /\ DestIdle
    /\ SignerIdle
    /\ PollIdle
    /\ LifeIdle
    /\ args \in Messages
    /\ ret = [step |-> "start"]

CallComputeMessageDigest ==
    /\ ret.step = "start"
    /\ ret' = [step |-> "digested", result |-> Returned(computeMessageDigest(args))]
    /\ UNCHANGED <<args, relayerVars, destVars, signerVars, pollVars, lifeVars>>

NextDigest == CallComputeMessageDigest

SpecDigest == InitDigest /\ [][NextDigest]_vars

\* C18: a message whose body is longer than the size limit is rejected before
\* it is encoded: the call fails and no digest is computed for it.
C18_OversizedBodyRejected ==
    (ret.step = "digested" /\ Len(args.body) > MaxBodyBytes) => ret.result.threw

\* the unsigned LEB128 length prefix
RECURSIVE Varint(_)
Varint(n) == IF n < 128 THEN <<n>> ELSE <<128 + (n % 128)>> \o Varint(n \div 128)

\* a field of the record: its length prefix, then its bytes
Field(bytes) == Varint(Len(bytes)) \o bytes

\* the bytes of a string, and the 8 big-endian bytes of a number below 2^64
StringBytes(str) ==
    [i \in 1..Len(str) |->
        IF str[i] = "a" THEN 97 ELSE IF str[i] = "b" THEN 98 ELSE 49]

EightBytes(number) ==
    [i \in 1..8 |->
        LET limb == number[2 + ((i - 1) \div 2)]
        IN  IF i % 2 = 1 THEN limb \div 256 ELSE limb % 256]

\* C19: the digest is one hash over the length-prefixed originId, destId,
\* nonce, senderModule, recipientModule, body and valsetId, in this order, each
\* exactly once.
C19_PreimageFieldOrder ==
    ret.step = "digested" =>
        /\ ~ret.result.threw
        /\ ret.result.value =
               Sha256OfBytes(Field(StringBytes(args.originChainId))
                                 \o Field(StringBytes(args.destChainId))
                                 \o Field(EightBytes(args.nonce))
                                 \o Field(StringBytes(args.senderModule))
                                 \o Field(StringBytes(args.recipientModule))
                                 \o Field(args.body)
                                 \o Field(EightBytes(args.valsetId)))

\* the digest of a message whose seven fields are all non-empty and whose
\* sender and recipient differ was computed
C19_Witness ==
    /\ ret.step = "digested"
    /\ args.originChainId = <<"a">>
    /\ args.destChainId = <<"b">>
    /\ args.senderModule = <<"a">>
    /\ args.recipientModule = <<"b">>
    /\ args.body = <<104, 101, 108, 108, 111>>
    /\ args.nonce = <<0, 0, 0, 1, 0>>
    /\ ret.result.value[2] =
           <<1, 97, 1, 98, 8, 0, 0, 0, 0, 0, 1, 0, 0, 1, 97, 1, 98,
             5, 104, 101, 108, 108, 111, 8, 0, 0, 0, 0, 0, 0, 0, 2>>

(* relayer.ts: processMessage from the event to the digest comparison (its
   steps 1 to 4); collection and submission follow from there. *)

\* String.prototype.split('|')
RECURSIVE SplitBar(_)
SplitBar(str) ==
    IF \A i \in 1..Len(str) : str[i] # "|" THEN <<str>>
    ELSE LET i == CHOOSE j \in 1..Len(str) :
                      str[j] = "|" /\ \A k \in 1..(j - 1) : str[k] # "|"
         IN  <<SubSeq(str, 1, i - 1)>> \o SplitBar(SubSeq(str, i + 1, Len(str)))

\* config.dstchainId
DstchainId == <<"b">>

\* routes of the events: origin|dest|recipientModule, one for another destination
EventRoutes == {<<"a", "|", "b", "|", "a">>, <<"a", "|", "b", "|", "b">>,
                <<"a", "|", "a", "|", "a">>}

\* 64-bit values an event can carry as decimal text: 0, 1, 258, 65536, 2^32,
\* 2^53 - 1, 2^53, 2^53 + 1, 2^53 + 3, 2^63 + 1024, 2^64 - 1
U64Samples ==
    {<<0, 0, 0, 0>>, <<0, 0, 0, 1>>, <<0, 0, 0, 258>>, <<0, 0, 1, 0>>, <<0, 1, 0, 0>>,
     <<31, 65535, 65535, 65535>>, <<32, 0, 0, 0>>, <<32, 0, 0, 1>>, <<32, 0, 0, 3>>,
     <<32768, 0, 0, 1024>>, <<65535, 65535, 65535, 65535>>}

\* valset ids of the events: 1, 2 and 2^53 + 1
EventValsetIds == {<<0, 0, 0, 1>>, <<0, 0, 0, 2>>, <<32, 0, 0, 1>>}

\* the 8 big-endian bytes of a 64-bit value
U64Bytes(limbs) ==
    <<limbs[1] \div 256, limbs[1] % 256, limbs[2] \div 256, limbs[2] % 256,
      limbs[3] \div 256, limbs[3] % 256, limbs[4] \div 256, limbs[4] % 256>>

\* the digest the origin chain puts in the event: the canonical encoding of
\* the message it sent, here one with an empty body
ChainDigest(route, nonce, valsetId) ==
    LET parts == SplitBar(route)
    IN  Sha256OfBytes(encodeStringWithLength(parts[1])
                          \o encodeStringWithLength(parts[2])
                          \o encodeWithLength(U64Bytes(nonce))
                          \o encodeStringWithLength(<<"h", "y", "p", "e", "r", "l", "a", "n", "e">>)
                          \o encodeStringWithLength(parts[3])
                          \o encodeWithLength(<<>>)
                          \o encodeWithLength(U64Bytes(valsetId)))

\* Buffer.from(digest).toString('hex')
HexOf(digest) == <<"hex", digest>>

InitProcess ==
    /\ RelayerIdle
    /\ DestIdle
    /\ SignerIdle
    /\ PollIdle
    /\ LifeIdle
    /\ \E route \in EventRoutes, nonce \in U64Samples, valsetId \in EventValsetIds :
       \E digestHex \in {HexOf(ChainDigest(route, nonce, valsetId)),
                         HexOf(Sha256OfBytes(<<>>))} :
           args = [route |-> route, nonce |-> nonce, valset_id |-> valsetId,
                   digest_hex |-> digestHex]
    /\ ret = [step |-> "start"]

\* step 1: the route is split; a message for another destination is skipped
ParseRoute ==
    /\ ret.step = "start"
    /\ LET parts == SplitBar(args.route)
       IN  ret' = IF parts[2] # DstchainId
                  THEN [step |-> "returned"]
                  ELSE [step |-> "routed", origin |-> parts[1], dest |-> parts[2],
                        recipientModule |-> parts[3]]
    /\ UNCHANGED <<args, relayerVars, destVars, signerVars, pollVars, lifeVars>>

\* step 2: the snapshot is fetched
GetValsetSnapshot ==
    /\ ret.step = "routed"
    /\ ret' = [ret EXCEPT !.step = "snapshot"]
    /\ UNCHANGED <<args, relayerVars, destVars, signerVars, pollVars, lifeVars>>

\* step 2, when the request fails
GetValsetSnapshotFails ==
    /\ ret.step = "routed"
    /\ ret' = [step |-> "threw"]
    /\ UNCHANGED <<args, relayerVars, destVars, signerVars, pollVars, lifeVars>>

\* step 3: the message literal
BuildMessage ==
    /\ ret.step = "snapshot"
    /\ ret' = [step |-> "built",
               message |-> [originChainId |-> ret.origin,
                            destChainId |-> ret.dest,
                            nonce |-> ParseInt(args.nonce),
                            senderModule |-> <<"h", "y", "p", "e", "r", "l", "a", "n", "e">>,
                            recipientModule |-> ret.recipientModule,
                            body |-> <<>>,
                            valsetId |-> ParseInt(args.valset_id)]]
    /\ UNCHANGED <<args, relayerVars, destVars, signerVars, pollVars, lifeVars>>

\* step 4: the digest is computed and compared with the event's
ComputeDigest ==
    /\ ret.step = "built"
    /\ LET digest == computeMessageDigest(ret.message)
       IN  ret' = [step |-> (IF HexOf(digest) # args.digest_hex THEN "threw" ELSE "collect"),
                   message |-> ret.message,
                   digest |-> digest]
    /\ UNCHANGED <<args, relayerVars, destVars, signerVars, pollVars, lifeVars>>

NextProcess ==
    \/ ParseRoute
    \/ GetValsetSnapshot
    \/ GetValsetSnapshotFails
    \/ BuildMessage
    \/ ComputeDigest

SpecProcess == InitProcess /\ [][NextProcess]_vars

\* the digest of the event's message has been computed
DigestComputed == ret.step \in {"threw", "collect"} /\ "digest" \in DOMAIN ret

\* C20: the nonce and the valsetId are each encoded as the byte 0x08 followed
\* by the 8 big-endian bytes of the value, for every 64-bit value.
C20_U64NineBytes ==
    DigestComputed =>
        LET preimage == ret.digest[2]
            at == Len(ret.message.originChainId) + Len(ret.message.destChainId) + 2
        IN  /\ SubSeq(preimage, at + 1, at + 9) = <<8>> \o U64Bytes(args.nonce)
            /\ SubSeq(preimage, Len(preimage) - 8, Len(preimage))
                   = <<8>> \o U64Bytes(args.valset_id)

----------------------------------------------------------------------------
(* QuorumVerifier, as specified for the destination side (sections 4.4 and
   4.5 of the specification); bitmaps are read with parseBitmap. *)

\* a primitive that accepts whatever it is given
AcceptAnySignature(pubkey, sig) == TRUE

\* the injected signature-verification primitive: the signature was made with
\* the private key of this public key, over the digest being verified
VerifySignature(pubkey, sig) == PubkeyOf(sig[2]) = pubkey

\* the power of the last index only
LastPower(members, indices) ==
    IF indices = <<>> THEN 0 ELSE members[indices[Len(indices)] + 1].power

\* step 3: the sum of the power of the members at the indices
RECURSIVE SumPower(_, _)
SumPower(members, indices) ==
    IF indices = <<>> THEN 0
    ELSE members[indices[1] + 1].power + SumPower(members, Tail(indices))

\* sum of all members' power
TotalSnapshotPower(members) == SumPower(members, [i \in 1..Len(members) |-> i - 1])

\* step 4: integer arithmetic only
QuorumStrictlyAbove(votingPowerAchieved, totalSnapshotPower, thresholdNumerator, thresholdDenominator) ==
    votingPowerAchieved * thresholdDenominator > totalSnapshotPower * thresholdNumerator

QuorumHolds(votingPowerAchieved, totalSnapshotPower, thresholdNumerator, thresholdDenominator) ==
    votingPowerAchieved * thresholdDenominator >= totalSnapshotPower * thresholdNumerator

\* no structural check at all
StructureUnchecked(members, prf) == TRUE

\* step 1: as many set bits as signatures, every set bit the index of a member
StructureOk(members, prf) ==
    /\ PopCount(prf.bitmap) = Len(prf.signatures)
    /\ Len(parseBitmap(prf.bitmap, Len(members))) = Len(prf.signatures)

\* verify(digest, snapshot, proof, thresholdNumerator, thresholdDenominator);
\* sigChecks counts the signature verifications performed
verify(members, prf, thresholdNumerator, thresholdDenominator) ==
    LET indices == parseBitmap(prf.bitmap, Len(members))
        Bad(k) == \/ k > Len(prf.signatures)
                  \/ ~VerifySignature(members[indices[k] + 1].attestationPubkey,
                                      prf.signatures[k])
    IN  IF ~StructureOk(members, prf)
        THEN [error |-> "MalformedProof", valid |-> FALSE, votingPowerAchieved |-> 0,
              sigChecks |-> 0]
        ELSE IF \E k \in 1..Len(indices) : Bad(k)
        THEN [error |-> "InvalidSignature", valid |-> FALSE, votingPowerAchieved |-> 0,
              sigChecks |-> CHOOSE k \in 1..Len(indices) :
                                Bad(k) /\ \A j \in 1..(k - 1) : ~Bad(j)]
        ELSE LET power == SumPower(members, indices)
             IN  IF QuorumHolds(power, TotalSnapshotPower(members),
                                thresholdNumerator, thresholdDenominator)
                 THEN [error |-> "none", valid |-> TRUE, votingPowerAchieved |-> power,
                       sigChecks |-> Len(indices)]
                 ELSE [error |-> "QuorumNotMet", valid |-> FALSE,
                       votingPowerAchieved |-> power, sigChecks |-> Len(indices)]

(* Snapshots and proofs given to the verifier *)

MaxSnapshotMembers == 5   \* largest snapshot

\* the i-th operator identifier: "a1" followed by i in bijective base 2 over a, b
RECURSIVE Numeral(_)
Numeral(i) ==
    IF i = 0 THEN <<>>
    ELSE Numeral((i - 1) \div 2) \o <<(IF i % 2 = 1 THEN "a" ELSE "b")>>

NthOperator(i) == <<"a", "1">> \o Numeral(i)

\* the members of a snapshot whose i-th registered validator has power powers[i],
\* in commitment order
SnapshotMembers(powers) ==
    getSortedSignerOrder([i \in 1..Len(powers) |->
        [operator |-> NthOperator(i),
         attestationPubkey |-> PubkeyOf(NthOperator(i)),
         power |-> powers[i]]])

PowerLists == UNION {[1..n -> Powers] : n \in 1..MaxSnapshotMembers}

\* the proof a collector builds from the signatures of the members at the
\* indices in signerSet: one signature per set bit, ascending
AttestProof(members, signerSet) ==
    LET indices == SortedSeq(signerSet)
    IN  [bitmap |-> createBitmap(indices, Len(members)),
         signatures |-> [k \in 1..Len(indices) |->
                            SignDigest(members[indices[k] + 1].operator)]]

\* a signature made with a key that belongs to no member
ForgedSignature == SignDigest(<<"b", "1">>)

Tampers == {"none", "forge", "drop", "extra"}

Tamper(prf, how) ==
    CASE how = "forge" ->
            [prf EXCEPT !.signatures =
                IF @ = <<>> THEN @ ELSE [@ EXCEPT ![1] = ForgedSignature]]
      [] how = "drop" ->
            [prf EXCEPT !.signatures = IF @ = <<>> THEN @ ELSE SubSeq(@, 1, Len(@) - 1)]
      [] how = "extra" -> [prf EXCEPT !.signatures = Append(@, ForgedSignature)]
      [] OTHER -> prf

\* thresholdNumerator / thresholdDenominator
Thresholds == {<<2, 3>>, <<1, 2>>, <<1, 1>>}

InitQuorum ==
    /\ RelayerIdle
    /\ DestIdle
    /\ SignerIdle
    /\ PollIdle
    /\ LifeIdle
    /\ \E powers \in PowerLists :
       \E signerSet \in SUBSET (0..(Len(powers) - 1)) :
       \E how \in Tampers :
       \E t \in Thresholds :
           args = [members |-> SnapshotMembers(powers),
                   signerSet |-> signerSet,
                   tamper |-> how,
                   proof |-> Tamper(AttestProof(SnapshotMembers(powers), signerSet), how),
                   thresholdNumerator |-> t[1],
                   thresholdDenominator |-> t[2]]
    /\ ret = [step |-> "start"]

CallVerify ==
    /\ ret.step = "start"
    /\ ret' = [step |-> "verified",
               result |-> verify(args.members, args.proof,
                                 args.thresholdNumerator, args.thresholdDenominator)]
    /\ UNCHANGED <<args, relayerVars, destVars, signerVars, pollVars, lifeVars>>

NextQuorum == CallVerify

SpecQuorum == InitQuorum /\ [][NextQuorum]_vars

\* the power of the members at the indices in a set
RECURSIVE PowerOfSet(_, _)
PowerOfSet(members, S) ==
    IF S = {} THEN 0
    ELSE LET i == CHOOSE x \in S : TRUE
         IN  members[i + 1].power + PowerOfSet(members, S \ {i})

FiveTens ==
    /\ Len(args.members) = 5
    /\ \A i \in 1..5 : args.members[i].power = 10
    /\ args.thresholdNumerator = 2
    /\ args.thresholdDenominator = 3

\* C10: a proof with valid signatures of a set of members is valid exactly when
\* power(set) * thresholdDenominator >= totalSnapshotPower * thresholdNumerator,
\* and fails with QuorumNotMet otherwise; with five members of power 10 and
\* threshold 2/3 any 4 signers meet quorum and any 3 do not.
C10_QuorumInequality ==
    (ret.step = "verified" /\ args.tamper = "none") =>
        LET power == PowerOfSet(args.members, args.signerSet)
            total == PowerOfSet(args.members, 0..(Len(args.members) - 1))
            holds == power * args.thresholdDenominator >= total * args.thresholdNumerator
        IN  /\ ret.result.valid <=> holds
            /\ ret.result.error = (IF holds THEN "none" ELSE "QuorumNotMet")
            /\ ret.result.votingPowerAchieved = power
            /\ (FiveTens /\ Cardinality(args.signerSet) = 4) => ret.result.valid
            /\ (FiveTens /\ Cardinality(args.signerSet) = 3) =>
                   (~ret.result.valid /\ ret.result.error = "QuorumNotMet")

\* four of five members of power 10 signed and the proof met the 2/3 quorum
C10_Witness ==
    /\ ret.step = "verified"
    /\ args.tamper = "none"
    /\ FiveTens
    /\ Cardinality(args.signerSet) = 4
    /\ ret.result.valid
    /\ ret.result.votingPowerAchieved = 40

\* the proof is structurally sound and carries one forged signature
ForgedProof ==
    /\ args.tamper = "forge"
    /\ args.signerSet # {}
    /\ PopCount(args.proof.bitmap) = Len(args.proof.signatures)
    /\ \E k \in 1..Len(args.proof.signatures) : args.proof.signatures[k] = ForgedSignature

\* C11: a proof with one signature that fails verification is rejected as a
\* whole with InvalidSignature and no voting power is tallied for it, whatever
\* the power of the members whose signatures are valid.
C11_InvalidSignatureRejectsProof ==
    (ret.step = "verified" /\ ForgedProof) =>
        /\ ~ret.result.valid
        /\ ret.result.error = "InvalidSignature"
        /\ ret.result.votingPowerAchieved = 0

\* all five members of power 10 signed, one signature was replaced by a forged
\* one (the other four hold 40 of 50, above 2/3), and the proof was rejected
C11_Witness ==
    /\ ret.step = "verified"
    /\ ForgedProof
    /\ FiveTens
    /\ Cardinality(args.signerSet) = 5
    /\ ret.result.error = "InvalidSignature"
    /\ ~ret.result.valid

\* C12: a proof whose number of set bits differs from its number of signatures
\* fails with MalformedProof and no signature verification was performed for it.
C12_MalformedBeforeCrypto ==
    (ret.step = "verified" /\ PopCount(args.proof.bitmap) # Len(args.proof.signatures)) =>
        /\ ~ret.result.valid
        /\ ret.result.error = "MalformedProof"
        /\ ret.result.sigChecks = 0

\* a proof with three set bits and two signatures (and one with a signature too
\* many) was rejected as malformed without a signature check
C12_Witness ==
    /\ ret.step = "verified"
    /\ args.tamper \in {"drop", "extra"}
    /\ Cardinality(args.signerSet) = 3
    /\ PopCount(args.proof.bitmap) = 3
    /\ Len(args.proof.signatures) \in {2, 4}
    /\ ret.result.error = "MalformedProof"
    /\ ret.result.sigChecks = 0

\* the result of verifying the untampered proof of a set of signers
VerifySigners(S) ==
    verify(args.members, AttestProof(args.members, S),
           args.thresholdNumerator, args.thresholdDenominator)

\* C14: adding a valid signer never decreases votingPowerAchieved; removing a
\* signer without whom the power falls below the threshold turns valid from true
\* to false, and at the exact boundary power * denominator = total * numerator
\* the proof is valid and removing any signer makes it invalid.
C14_QuorumMonotonic ==
    (ret.step = "verified" /\ args.tamper = "none") =>
        LET S == args.signerSet
            all == 0..(Len(args.members) - 1)
            power == PowerOfSet(args.members, S)
            need == PowerOfSet(args.members, all) * args.thresholdNumerator
        IN  /\ \A i \in all \ S :
                   VerifySigners(S \cup {i}).votingPowerAchieved
                       >= ret.result.votingPowerAchieved
            /\ \A i \in S :
                   (/\ ret.result.valid
                    /\ (power - args.members[i + 1].power) * args.thresholdDenominator < need)
                       => ~VerifySigners(S \ {i}).valid
            /\ power * args.thresholdDenominator = need =>
                   /\ ret.result.valid
                   /\ \A i \in S : ~VerifySigners(S \ {i}).valid

\* a proof exactly at the boundary (power * denominator = total * numerator) was
\* valid, with a signer whose removal makes it invalid and a member who can
\* still be added
C14_Witness ==
    /\ ret.step = "verified"
    /\ args.tamper = "none"
    /\ ret.result.valid
    /\ ret.result.votingPowerAchieved * args.thresholdDenominator
           = PowerOfSet(args.members, 0..(Len(args.members) - 1)) * args.thresholdNumerator
    /\ Cardinality(args.signerSet) >= 2
    /\ Cardinality(args.signerSet) < Len(args.members)
    /\ \E i \in args.signerSet : ~VerifySigners(args.signerSet \ {i}).valid

----------------------------------------------------------------------------
(* The verification entry point submit(message, proof) of the destination
   side with its ReplayGuard (strict mode), as specified in sections 4.6, 5, 6
   and 7 of the specification. A submission arrives, takes the lock of its
   route, is checked (ReplayGuard first, a lookup; then the snapshot and the
   QuorumVerifier), and commits its result before it releases the lock. *)

ThresholdNumerator == 2
ThresholdDenominator == 3

\* valset_snapshots/{id} on the destination chain: one snapshot, three members of power 10
KnownSnapshots == [id \in {1} |-> SnapshotMembers(<<10, 10, 10>>)]

SubmissionKinds == {"quorum", "belowQuorum", "forged", "malformed", "unknownSnapshot"}

\* the valsetId and the proof a submission of each kind carries
SubmissionOf(kind) ==
    LET members == KnownSnapshots[1]
    IN  CASE kind = "quorum" ->
                [valsetId |-> 1, proof |-> AttestProof(members, {0, 1})]
          [] kind = "belowQuorum" ->
                [valsetId |-> 1, proof |-> AttestProof(members, {2})]
          [] kind = "forged" ->
                [valsetId |-> 1, proof |-> Tamper(AttestProof(members, {0, 1, 2}), "forge")]
          [] kind = "malformed" ->
                [valsetId |-> 1, proof |-> Tamper(AttestProof(members, {0, 1, 2}), "drop")]
          [] OTHER ->
                [valsetId |-> 2, proof |-> AttestProof(members, {0, 1})]

\* ReplayGuard: below the expectation, or in the consumed set
NeverReplay(route, nonce) == FALSE

IsReplay(route, nonce) ==
    nonce < routeNonces[route] \/ <<route, nonce>> \in consumedNonces

\* strict mode: a nonce above the expectation is not buffered
NeverOutOfOrder(route, nonce) == FALSE

IsOutOfOrder(route, nonce) == nonce > routeNonces[route]

\* what the snapshot lookup and the QuorumVerifier answer for a submission:
\* the stable error kind, or "Accepted"
VerdictOf(kind) ==
    LET sub == SubmissionOf(kind)
    IN  IF sub.valsetId \notin DOMAIN KnownSnapshots THEN "UnknownSnapshot"
        ELSE LET v == verify(KnownSnapshots[sub.valsetId], sub.proof,
                             ThresholdNumerator, ThresholdDenominator)
             IN  IF v.valid THEN "Accepted" ELSE v.error

Verdicts == [kind \in SubmissionKinds |-> VerdictOf(kind)]

\* the outcome of a submission: the ReplayGuard is consulted first
Decide(route, nonce, kind) ==
    IF IsReplay(route, nonce) THEN "ReplayRejected"
    ELSE IF IsOutOfOrder(route, nonce) THEN "OutOfOrder"
    ELSE Verdicts[kind]

\* the serialization point: one submission per route at a time
AlwaysFree(route) == TRUE

LockFree(route) == routeLock[route] = 0

\* the nonces delivered on a route so far, and the nonce the route expects
\* after them (the first nonce of a route is 1)
DeliveredOn(route) ==
    {deliverEvents[i].nonce : i \in {j \in 1..Len(deliverEvents) : deliverEvents[j].route = route}}

ExpectedAfterDeliveries(route) == 1 + Cardinality(DeliveredOn(route))

InitDest ==
    /\ RelayerIdle
    /\ DestIdle
    /\ SignerIdle
    /\ PollIdle
    /\ LifeIdle
    /\ args = "none"
    /\ ret = "none"

\* a submission reaches the entry point
SubmitArrive(a) ==
    /\ attempts[a].pc = "idle"
    /\ a > 1 => attempts[a - 1].pc # "idle"
    /\ \E route \in Routes, nonce \in 1..MaxNonce, kind \in SubmissionKinds :
           attempts' = [attempts EXCEPT ![a] =
               [NoAttempt EXCEPT !.pc = "waiting", !.route = route, !.nonce = nonce,
                                 !.kind = kind,
                                 !.arrivedExpecting = ExpectedAfterDeliveries(route)]]
    /\ UNCHANGED <<routeNonces, consumedNonces, routeLock, deliverEvents,
                   relayerVars, harnessVars, signerVars, pollVars, lifeVars>>

\* it takes the route's lock and is checked against the state it finds
SubmitCheck(a) ==
    /\ attempts[a].pc = "waiting"
    /\ LockFree(attempts[a].route)
    /\ routeLock' = [routeLock EXCEPT ![attempts[a].route] = a]
    /\ LET sub == attempts[a]
       IN  attempts' = [attempts EXCEPT ![a] =
               [sub EXCEPT !.pc = "checked",
                           !.expecting = ExpectedAfterDeliveries(sub.route),
                           !.replayed = sub.nonce \in DeliveredOn(sub.route),
                           !.result = Decide(sub.route, sub.nonce, sub.kind)]]
    /\ UNCHANGED <<routeNonces, consumedNonces, deliverEvents, relayerVars, harnessVars, signerVars, pollVars, lifeVars>>

\* every submission commits
CommitsAlways(result) == TRUE

\* only an accepted submission commits to the route's nonce state
Commits(result) == result = "Accepted"

\* an accepted submission moves the route to nonce + 1, consumes the nonce and
\* emits the deliver event; any other leaves the nonce state alone
SubmitCommit(a) ==
    /\ attempts[a].pc = "checked"
    /\ LET route == attempts[a].route
           nonce == attempts[a].nonce
       IN  /\ IF Commits(attempts[a].result)
              THEN /\ routeNonces' = [routeNonces EXCEPT ![route] = nonce + 1]
                   /\ consumedNonces' = consumedNonces \cup {<<route, nonce>>}
                   /\ deliverEvents' = Append(deliverEvents, [route |-> route, nonce |-> nonce])
              ELSE UNCHANGED <<routeNonces, consumedNonces, deliverEvents>>
           /\ routeLock' = [routeLock EXCEPT ![route] = 0]
    /\ attempts' = [attempts EXCEPT ![a].pc = "done"]
    /\ UNCHANGED <<relayerVars, harnessVars, signerVars, pollVars, lifeVars>>

NextDest ==
    \/ \E a \in Attempts : SubmitArrive(a)
    \/ \E a \in Attempts : SubmitCheck(a)
    \/ \E a \in Attempts : SubmitCommit(a)

SpecDest == InitDest /\ [][NextDest]_vars

----------------------------------------------------------------------------
(* Replay protection and ordering at the entry point *)

Checked(a) == attempts[a].pc \in {"checked", "done"}

\* the nonces delivered on a route, in the order of their events
RECURSIVE RouteDeliveries(_, _)
RouteDeliveries(events, route) ==
    IF events = <<>> THEN <<>>
    ELSE (IF events[1].route = route THEN <<events[1].nonce>> ELSE <<>>)
         \o RouteDeliveries(Tail(events), route)

\* the submission carries a known snapshot and a proof that meets quorum
CarriesValidProof(kind) == kind # "" /\ Verdicts[kind] = "Accepted"

\* C7: each (route, nonce) pair is accepted at most once, and a submission of a
\* nonce already accepted on its route fails with ReplayRejected, whatever
\* proof it carries.
C7_ReplayRejected ==
    /\ \A i, j \in 1..Len(deliverEvents) :
           i # j => deliverEvents[i] # deliverEvents[j]
    /\ \A a \in Attempts :
           (Checked(a) /\ attempts[a].replayed) => attempts[a].result = "ReplayRejected"

\* a nonce was accepted, then submitted again with a proof that meets quorum,
\* and the second submission was rejected as a replay
C7_Witness ==
    \E a \in Attempts :
        /\ attempts[a].pc = "done"
        /\ attempts[a].replayed
        /\ CarriesValidProof(attempts[a].kind)
        /\ attempts[a].result = "ReplayRejected"
        /\ Len(RouteDeliveries(deliverEvents, attempts[a].route)) = 1

\* C8: on a route expecting nonce N a submission with a greater nonce fails with
\* OutOfOrder, only nonce N is accepted, the expected nonce is always one more
\* than the last accepted nonce (so a rejected submission leaves it alone), and
\* the nonces accepted on a route are consecutive and increasing.
C8_StrictOrdering ==
    /\ \A a \in Attempts :
           Checked(a) =>
               /\ attempts[a].nonce > attempts[a].expecting => attempts[a].result = "OutOfOrder"
               /\ attempts[a].result = "Accepted" => attempts[a].nonce = attempts[a].expecting
    /\ \A route \in Routes :
           LET accepted == RouteDeliveries(deliverEvents, route)
           IN  /\ \A k \in 1..(Len(accepted) - 1) : accepted[k + 1] = accepted[k] + 1
               /\ routeNonces[route] =
                      (IF accepted = <<>> THEN 1 ELSE accepted[Len(accepted)] + 1)

\* nonce N + 2 was submitted on a route expecting N, failed with OutOfOrder, and
\* the route still expects N
C8_Witness ==
    \E a \in Attempts :
        /\ attempts[a].pc = "done"
        /\ attempts[a].nonce = attempts[a].expecting + 2
        /\ CarriesValidProof(attempts[a].kind)
        /\ attempts[a].result = "OutOfOrder"
        /\ routeNonces[attempts[a].route] = attempts[a].expecting

\* the submissions of a route and nonce that carry a proof meeting quorum and
\* arrived while the route was expecting that nonce: they are in flight
\* together with the one that gets the nonce accepted
Concurrent(route, nonce) ==
    {a \in Attempts :
        /\ attempts[a].pc # "idle"
        /\ attempts[a].route = route
        /\ attempts[a].nonce = nonce
        /\ attempts[a].arrivedExpecting = nonce
        /\ CarriesValidProof(attempts[a].kind)}

\* the submissions of a route and nonce that were accepted
AcceptedFor(route, nonce) ==
    {a \in Attempts :
        /\ Checked(a)
        /\ attempts[a].route = route
        /\ attempts[a].nonce = nonce
        /\ attempts[a].result = "Accepted"}

\* C9: of the verification attempts for one route and nonce at most one is ever
\* accepted; once the concurrent ones have all completed exactly one attempt
\* was accepted and every other concurrent one observed ReplayRejected.
C9_ExactlyOneAccepted ==
    \A route \in Routes, nonce \in 1..MaxNonce :
        LET G == Concurrent(route, nonce)
        IN  /\ Cardinality(AcceptedFor(route, nonce)) <= 1
            /\ (G # {} /\ \A a \in G : attempts[a].pc = "done") =>
                   /\ Cardinality(AcceptedFor(route, nonce)) = 1
                   /\ \A a \in G \ AcceptedFor(route, nonce) :
                          attempts[a].result = "ReplayRejected"

\* two attempts for the same route and nonce were waiting together; one was
\* accepted, the other observed ReplayRejected
C9_Witness ==
    \E a, b \in Attempts :
        /\ a # b
        /\ {a, b} \subseteq Concurrent(attempts[a].route, attempts[a].nonce)
        /\ attempts[a].pc = "done"
        /\ attempts[b].pc = "done"
        /\ attempts[a].result = "Accepted"
        /\ attempts[b].result = "ReplayRejected"

\* the error kinds of a submission that failed verification
VerificationFailures == {"MalformedProof", "InvalidSignature", "QuorumNotMet", "OutOfOrder"}

\* the step in which submission a completes with a verification failure
CompletesFailed(a) ==
    /\ attempts[a].pc = "checked"
    /\ attempts'[a].pc = "done"
    /\ attempts[a].result \in VerificationFailures

\* C13: a submission that fails verification leaves the nonce state of every
\* route as it was (expected nonce, consumed set, deliveries), and a submission
\* of the nonce its route expects, not delivered before, with a proof that
\* meets quorum is accepted, whatever failed before it.
C13_FailureKeepsNonce ==
    /\ [][\A a \in Attempts :
             CompletesFailed(a) =>
                 UNCHANGED <<routeNonces, consumedNonces, deliverEvents>>]_vars
    /\ [](\A a \in Attempts :
             (/\ Checked(a)
              /\ CarriesValidProof(attempts[a].kind)
              /\ attempts[a].nonce = attempts[a].expecting
              /\ ~attempts[a].replayed) => attempts[a].result = "Accepted")

\* a submission of the expected nonce failed verification, and a later
\* submission of the same route and nonce was accepted
C13_Witness ==
    \E a, b \in Attempts :
        /\ attempts[a].pc = "done"
        /\ attempts[b].pc = "done"
        /\ attempts[a].route = attempts[b].route
        /\ attempts[a].nonce = attempts[b].nonce
        /\ attempts[a].nonce = attempts[a].expecting
        /\ attempts[a].result \in {"MalformedProof", "InvalidSignature", "QuorumNotMet"}
        /\ attempts[b].result = "Accepted"

----------------------------------------------------------------------------
(* The signing daemon (Go): the key store and the /sign, /health and /pubkeys
   handlers of a started server. Strings are sequences of characters. *)

MaxRequests == 2     \* number of requests the daemon serves

Repeat(c, n) == [i \in 1..n |-> c]

\* the value of a hexadecimal digit, -1 for any other character
HexVal(c) ==
    CASE c = "0" -> 0 [] c = "1" -> 1 [] c = "2" -> 2 [] c = "3" -> 3 [] c = "4" -> 4
      [] c = "5" -> 5 [] c = "6" -> 6 [] c = "7" -> 7 [] c = "8" -> 8 [] c = "9" -> 9
      [] c = "a" -> 10 [] c = "b" -> 11 [] c = "c" -> 12 [] c = "d" -> 13
      [] c = "e" -> 14 [] c = "f" -> 15 [] OTHER -> -1

\* hex.DecodeString: an error for a character that is no digit and for an odd length
HexDecodeFails(str) ==
    \/ \E i \in 1..Len(str) : HexVal(str[i]) < 0
    \/ Len(str) % 2 = 1

HexDecodeString(str) ==
    [i \in 1..(Len(str) \div 2) |-> 16 * HexVal(str[2 * i - 1]) + HexVal(str[2 * i])]

\* private key hex strings a key store file may hold; the last one is not a key
PrivateKeyHexes == {"key1", "key2", "nokey"}

\* hex.DecodeString and crypto.ToECDSA of a stored private key succeed
PrivateKeyParses(privateKeyHex) == privateKeyHex \in {"key1", "key2"}

\* KeyStore.GetPrivateKey fails: no entry, or an entry that is not a key
GetPrivateKeyFails(keys, operatorAddr) ==
    \/ operatorAddr \notin DOMAIN keys
    \/ ~PrivateKeyParses(keys[operatorAddr])

GetPrivateKey(keys, operatorAddr) == <<"priv", keys[operatorAddr]>>

\* a length check that accepts every digest
AnyDigestLength(digest) == TRUE

\* len(digest) != 32, in handleSign and in keys.SignDigest
DigestLengthOk(digest) == Len(digest) = 32

\* keys.SignDigest: crypto.Sign is deterministic in the key and the digest
SignDigestFails(privateKey, digest) == ~DigestLengthOk(digest)

SignDigestWithKey(privateKey, digest) == <<"sig", privateKey, digest>>

\* PublicKeyToBytes(&privateKey.PublicKey), hex encoded
PublicKeyHex(privateKey) == <<"pub", privateKey[2]>>

\* a handler that drops the key it signed with
KeysWithout(keys, operatorAddr) ==
    [op \in DOMAIN keys \ {operatorAddr} |-> keys[op]]

\* the key store after handleSign: the handlers only read it
KeysAfterSign(keys, operatorAddr) == keys

\* a response: the status, SignResponse.Signature and SignResponse.Error, and
\* whether a private key was taken from the store to sign with
SignResponse(status, signature, error, keyUsed) ==
    [status |-> status, signature |-> signature, error |-> error, keyUsed |-> keyUsed]

\* handleSign
handleSign(keys, req) ==
    IF req.method # "POST" THEN SignResponse(405, <<>>, "Method not allowed", FALSE)
    ELSE IF ~req.jsonOk THEN SignResponse(400, <<>>, "Invalid JSON request", FALSE)
    ELSE IF req.operatorBech32 = <<>>
    THEN SignResponse(400, <<>>, "operatorBech32 is required", FALSE)
    ELSE IF req.digestHex = <<>> THEN SignResponse(400, <<>>, "digestHex is required", FALSE)
    ELSE IF HexDecodeFails(req.digestHex)
    THEN SignResponse(400, <<>>, "Invalid digestHex format", FALSE)
    ELSE LET digest == HexDecodeString(req.digestHex)
         IN  IF ~DigestLengthOk(digest)
             THEN SignResponse(400, <<>>, "digest must be exactly 32 bytes", FALSE)
             ELSE IF GetPrivateKeyFails(keys, req.operatorBech32)
             THEN SignResponse(404, <<>>, "Private key not found for operator", FALSE)
             ELSE LET privateKey == GetPrivateKey(keys, req.operatorBech32)
                  IN  IF SignDigestFails(privateKey, digest)
                      THEN SignResponse(500, <<>>, "Failed to sign digest", TRUE)
                      ELSE SignResponse(200,
                               Base64Encode(SignDigestWithKey(privateKey, digest)), "", TRUE)

\* handlePubKeys: the public keys of the entries that parse
handlePubKeys(keys, method) ==
    IF method # "GET" THEN [status |-> 405, publicKeys |-> <<>>]
    ELSE [status |-> 200,
          publicKeys |-> [op \in {o \in DOMAIN keys : ~GetPrivateKeyFails(keys, o)} |->
                             PublicKeyHex(GetPrivateKey(keys, op))]]

\* handleHealth
handleHealth(method) ==
    IF method # "GET" THEN [status |-> 405, body |-> ""]
    ELSE [status |-> 200, body |-> "healthy"]

\* the operators of the requests: none, two with a stored key, one without
RequestOperators == {<<>>, <<"a", "1", "a">>, <<"b", "1", "a">>, <<"a", "1", "b">>}

\* the digestHex of the requests: empty, 32 bytes (two values), 31 and 33 bytes,
\* an odd number of digits, and 64 characters that are no digits
RequestDigests ==
    {<<>>, Repeat("a", 64), Repeat("0", 64), Repeat("a", 62), Repeat("a", 66),
     Repeat("a", 63), Repeat("g", 64)}

SignRequests ==
    [method : {"POST"}, jsonOk : {TRUE}, operatorBech32 : RequestOperators,
     digestHex : RequestDigests]
    \cup
    [method : {"GET"}, jsonOk : {TRUE}, operatorBech32 : {<<"a", "1", "a">>},
     digestHex : {Repeat("a", 64)}]
    \cup
    [method : {"POST"}, jsonOk : {FALSE}, operatorBech32 : {<<>>}, digestHex : {<<>>}]

\* the key stores a server is started with
KeyStores ==
    {(<<"a", "1", "a">> :> "key1") @@ (<<"b", "1", "a">> :> "key2"),
     (<<"a", "1", "a">> :> "key1") @@ (<<"b", "1", "a">> :> "nokey")}

InitSigner ==
    /\ RelayerIdle
    /\ DestIdle
    /\ PollIdle
    /\ LifeIdle
    /\ args = "none"
    /\ ret = "none"
    /\ keyStore \in KeyStores
    /\ signLog = <<>>
    /\ keyUses = 0

HandleSign ==
    /\ Len(signLog) < MaxRequests
    /\ \E req \in SignRequests :
           LET resp == handleSign(keyStore, req)
           IN  /\ signLog' = Append(signLog, [endpoint |-> "/sign", request |-> req,
                                             response |-> resp])
               /\ keyUses' = keyUses + (IF resp.keyUsed THEN 1 ELSE 0)
               /\ keyStore' = KeysAfterSign(keyStore, req.operatorBech32)
    /\ UNCHANGED <<relayerVars, harnessVars, destVars, pollVars, lifeVars>>

HandleHealth ==
    /\ Len(signLog) < MaxRequests
    /\ \E method \in {"GET", "POST"} :
           signLog' = Append(signLog, [endpoint |-> "/health", request |-> [method |-> method],
                                       response |-> handleHealth(method)])
    /\ UNCHANGED <<keyStore, keyUses, relayerVars, harnessVars, destVars, pollVars, lifeVars>>

HandlePubKeys ==
    /\ Len(signLog) < MaxRequests
    /\ \E method \in {"GET", "POST"} :
           signLog' = Append(signLog, [endpoint |-> "/pubkeys", request |-> [method |-> method],
                                       response |-> handlePubKeys(keyStore, method)])
    /\ UNCHANGED <<keyStore, keyUses, relayerVars, harnessVars, destVars, pollVars, lifeVars>>

NextSigner == HandleSign \/ HandleHealth \/ HandlePubKeys

SpecSigner == InitSigner /\ [][NextSigner]_vars

\* the /sign entries of the log
SignEntries == {i \in 1..Len(signLog) : signLog[i].endpoint = "/sign"}

\* the digestHex of a request is 64 hexadecimal digits
IsThirtyTwoBytes(digestHex) ==
    /\ Len(digestHex) = 64
    /\ \A i \in 1..64 : digestHex[i] \in {"0", "1", "2", "3", "4", "5", "6", "7", "8", "9",
                                         "a", "b", "c", "d", "e", "f"}

\* C23: a /sign response carries a signature only when the digest is exactly
\* 32 bytes; an empty, malformed or wrong-length digestHex gets an error
\* response without a signature, and no private key is used for it.
C23_OnlyThirtyTwoBytesSigned ==
    /\ \A i \in SignEntries :
           LET req == signLog[i].request
               resp == signLog[i].response
           IN  /\ resp.signature # <<>> => IsThirtyTwoBytes(req.digestHex)
               /\ ~IsThirtyTwoBytes(req.digestHex) =>
                      /\ resp.signature = <<>>
                      /\ resp.error # ""
                      /\ resp.status >= 400
                      /\ ~resp.keyUsed
    /\ keyUses = Cardinality({i \in SignEntries : signLog[i].response.signature # <<>>})

\* a 31-byte digest was refused for an operator whose key is in the store, and
\* a 32-byte digest was signed for the same operator
C23_Witness ==
    \E i, j \in SignEntries :
        /\ signLog[i].request.digestHex = Repeat("a", 62)
        /\ signLog[i].request.operatorBech32 = <<"a", "1", "a">>
        /\ signLog[i].response.status = 400
        /\ signLog[i].response.signature = <<>>
        /\ signLog[j].request.operatorBech32 = <<"a", "1", "a">>
        /\ signLog[j].response.signature # <<>>
        /\ keyUses = 1

----------------------------------------------------------------------------
(* Signature collection: failures and termination *)

\* every daemon's loop has ended
AllDone == \A d \in Daemons : daemonPos[d] = 0

\* s is a prefix of t
IsPrefix(s, t) == Len(s) <= Len(t) /\ SubSeq(t, 1, Len(s)) = s

\* C25: a daemon that fails or times out does not abort the batch: collection
\* fails only after every daemon has ended without any signature, signatures
\* already collected are kept while the other daemons are asked, and all of
\* them are returned and used for the proof.
C25_FailuresIsolated ==
    /\ [](phase = "failed" => (AllDone /\ (signatures = <<>> \/ SortThrows(valset))))
    /\ [](phase = "submitted" =>
              (AllDone /\ signatures # <<>> /\ Len(proof.signatures) = Len(signatures)))
    /\ [][phase = "collecting" => IsPrefix(signatures, signatures')]_vars

\* of two daemons that both hold keys one failed for every signer; the
\* signature of the other was collected and a proof was built from it
C25_Witness ==
    /\ phase = "submitted"
    /\ Len(valset) >= 2
    /\ \A d \in Daemons : daemonKeys[d] # {}
    /\ Len(signatures) = 1
    /\ Len(proof.signatures) = 1

\* the distinct operators whose signature has been collected hold enough power
\* to meet the threshold
QuorumCollected ==
    LET signed == {signatures[k].operatorAddress : k \in 1..Len(signatures)}
        power == 10 * Cardinality({i \in 1..Len(valset) : valset[i].operator \in signed})
    IN  /\ valset # <<>>
        /\ power * ThresholdDenominator >= 10 * Len(valset) * ThresholdNumerator

\* C26: collection ends as soon as the signatures collected are enough to meet
\* quorum; it does not go on asking the remaining daemons.
C26_StopsAtQuorum ==
    [][(phase = "collecting" /\ QuorumCollected) => phase' # "collecting"]_vars

----------------------------------------------------------------------------
(* relayer.ts: start, stop, the polling loop and processNewMessages.
   processMessage runs from the route check to the built delivery; the
   collection of signatures inside it is one step here (its interleavings are
   those of collectSignatures above). *)

\* the counters of `calls` stop counting here
MaxCount == 2

\* the number of events a query returns
MaxEvents == 2

Bump(n) == IF n < MaxCount THEN n + 1 ELSE n

\* the digest the origin chain puts in the event of a message with this body
ChainDigestWithBody(route, nonce, valsetId, body) ==
    LET parts == SplitBar(route)
    IN  Sha256OfBytes(encodeStringWithLength(parts[1])
                          \o encodeStringWithLength(parts[2])
                          \o encodeWithLength(U64Bytes(nonce))
                          \o encodeStringWithLength(<<"h", "y", "p", "e", "r", "l", "a", "n", "e">>)
                          \o encodeStringWithLength(parts[3])
                          \o encodeWithLength(body)
                          \o encodeWithLength(U64Bytes(valsetId)))

\* the hyperlane_send event of a message sent on the origin chain
SentEvent(route, nonce, valsetId, body) ==
    [route |-> route, nonce |-> nonce, valset_id |-> valsetId,
     digest_hex |-> HexOf(ChainDigestWithBody(route, nonce, valsetId, body))]

\* messages sent on the origin chain: one with an empty body and one with the
\* body "h" for the configured destination, one for another destination
EmptyBodyEvent == SentEvent(<<"a", "|", "b", "|", "a">>, <<0, 0, 0, 1>>, <<0, 0, 0, 1>>, <<>>)
BodyEvent == SentEvent(<<"a", "|", "b", "|", "a">>, <<0, 0, 0, 2>>, <<0, 0, 0, 1>>, <<104>>)
OtherDestEvent == SentEvent(<<"a", "|", "a", "|", "a">>, <<0, 0, 0, 1>>, <<0, 0, 0, 1>>, <<>>)

PollEvents == {EmptyBodyEvent, BodyEvent, OtherDestEvent}

\* `${event.route}:${event.nonce}`
MessageKey(event) == event.route \o <<":">> \o <<event.nonce>>

PollKeys == {MessageKey(e) : e \in PollEvents}

\* the lists of events the origin chain holds
EventLists == UNION {[1..n -> PollEvents] : n \in 0..MaxEvents}

\* queryHyperlaneSendEvents: the placeholder returns the empty list; "events"
\* stands for the query the TODO asks for, which returns the chain's events
QueryResult(query, chain) == IF query = "placeholder" THEN <<>> ELSE chain

\* this.processedMessages.has(messageKey), always false
NeverProcessed(key, processed) == FALSE

\* this.processedMessages.has(messageKey)
AlreadyProcessed(key, processed) == key \in processed

\* a catch block that records the key as processed
AfterThrowAdds(processed, key) == processed \cup {key}

\* the catch block of processNewMessages: 'Will retry on next poll'
AfterThrow(processed, key) == processed

\* a comparison that accepts every digest
DigestUnchecked(digestHex, expected) == TRUE

\* digestHex === event.digest_hex
DigestMatches(digestHex, expected) == digestHex = expected

\* the message literal of processMessage
RelayerMessage(event) ==
    LET parts == SplitBar(event.route)
    IN  [originChainId |-> parts[1],
         destChainId |-> parts[2],
         nonce |-> ParseInt(event.nonce),
         senderModule |-> <<"h", "y", "p", "e", "r", "l", "a", "n", "e">>,
         recipientModule |-> parts[3],
         body |-> <<>>,
         valsetId |-> ParseInt(event.valset_id)]

NoCalls == [invoked |-> 0, signed |-> 0, proofs |-> 0, returned |-> 0,
            threw |-> 0, mismatched |-> 0, skipped |-> 0]

NoPoll == [pc |-> "none", events |-> <<>>, i |-> 0, key |-> <<>>, outcome |-> "none"]

InitPoll ==
    /\ RelayerIdle
    /\ LifeIdle
    /\ DestIdle
    /\ SignerIdle
    /\ \E query \in {"placeholder", "events"}, chain \in EventLists :
           args = [query |-> query, chain |-> chain]
    /\ ret = "none"
    /\ running = FALSE
    /\ pollTimer = FALSE
    /\ processedMessages = {}
    /\ poll = NoPoll
    /\ calls = [k \in PollKeys |-> NoCalls]

\* the event the loop of processNewMessages is at
CurrentEvent == poll.events[poll.i]

\* processMessage is executing
InProcessMessage == poll.pc \in {"start", "routed", "collect", "submit"}

\* processMessage returns: the key is added and the loop goes on
Returns(key) ==
    /\ processedMessages' = processedMessages \cup {key}
    /\ poll' = [poll EXCEPT !.pc = "loop", !.i = poll.i + 1, !.outcome = "returned"]

\* processMessage throws: the catch block logs the error and the loop goes on
Throws(key, error) ==
    /\ processedMessages' = AfterThrow(processedMessages, key)
    /\ poll' = [poll EXCEPT !.pc = "loop", !.i = poll.i + 1, !.outcome = error]

\* start(): running = true, then startPolling calls poll() at once
Start ==
    /\ ~running
    /\ poll.pc = "none"
    /\ running' = TRUE
    /\ poll' = [NoPoll EXCEPT !.pc = "query"]
    /\ UNCHANGED <<pollTimer, processedMessages, calls, harnessVars, relayerVars, destVars, signerVars, lifeVars>>

\* stop(): running = false, clearTimeout(pollTimer)
Stop ==
    /\ running
    /\ running' = FALSE
    /\ pollTimer' = FALSE
    /\ UNCHANGED <<processedMessages, poll, calls, harnessVars, relayerVars, destVars, signerVars, lifeVars>>

\* the timer set by poll fires and poll runs again
PollTimerFires ==
    /\ pollTimer
    /\ poll.pc = "none"
    /\ pollTimer' = FALSE
    /\ poll' = IF running THEN [NoPoll EXCEPT !.pc = "query"] ELSE NoPoll
    /\ UNCHANGED <<running, processedMessages, calls, harnessVars, relayerVars, destVars, signerVars, lifeVars>>

\* const events = await this.queryHyperlaneSendEvents()
QueryEvents ==
    /\ poll.pc = "query"
    /\ poll' = [poll EXCEPT !.pc = "loop", !.i = 1,
                            !.events = QueryResult(args.query, args.chain)]
    /\ UNCHANGED <<running, pollTimer, processedMessages, calls, harnessVars, relayerVars, destVars, signerVars, lifeVars>>

\* if (this.processedMessages.has(messageKey)) continue
SkipProcessed ==
    /\ poll.pc = "loop"
    /\ poll.i <= Len(poll.events)
    /\ LET key == MessageKey(CurrentEvent)
       IN  /\ AlreadyProcessed(key, processedMessages)
           /\ poll' = [poll EXCEPT !.i = poll.i + 1]
           /\ calls' = [calls EXCEPT ![key].skipped = Bump(@)]
    /\ UNCHANGED <<running, pollTimer, processedMessages, harnessVars, relayerVars, destVars, signerVars, lifeVars>>

\* await this.processMessage(event)
ProcessMessage ==
    /\ poll.pc = "loop"
    /\ poll.i <= Len(poll.events)
    /\ LET key == MessageKey(CurrentEvent)
       IN  /\ ~AlreadyProcessed(key, processedMessages)
           /\ poll' = [poll EXCEPT !.pc = "start", !.key = key, !.outcome = "none"]
           /\ calls' = [calls EXCEPT ![key].invoked = Bump(@)]
    /\ UNCHANGED <<running, pollTimer, processedMessages, harnessVars, relayerVars, destVars, signerVars, lifeVars>>

\* step 1: a message for another destination makes processMessage return
CheckDestination ==
    /\ poll.pc = "start"
    /\ IF SplitBar(CurrentEvent.route)[2] # DstchainId
       THEN /\ Returns(poll.key)
            /\ calls' = [calls EXCEPT ![poll.key].returned = Bump(@)]
       ELSE /\ poll' = [poll EXCEPT !.pc = "routed"]
            /\ UNCHANGED <<processedMessages, calls>>
    /\ UNCHANGED <<running, pollTimer, harnessVars, relayerVars, destVars, signerVars, lifeVars>>

\* step 2 fails: getValsetSnapshot throws
SnapshotFails ==
    /\ poll.pc = "routed"
    /\ Throws(poll.key, "Failed to get valset snapshot")
    /\ calls' = [calls EXCEPT ![poll.key].threw = Bump(@)]
    /\ UNCHANGED <<running, pollTimer, harnessVars, relayerVars, destVars, signerVars, lifeVars>>

\* steps 2 to 4: the snapshot is fetched, the message is built with an empty
\* body, its digest is compared with the event's
CompareDigest ==
    /\ poll.pc = "routed"
    /\ LET digest == computeMessageDigest(RelayerMessage(CurrentEvent))
       IN  IF DigestMatches(HexOf(digest), CurrentEvent.digest_hex)
           THEN /\ poll' = [poll EXCEPT !.pc = "collect"]
                /\ UNCHANGED <<processedMessages, calls>>
           ELSE /\ Throws(poll.key, "Digest mismatch")
                /\ calls' = [calls EXCEPT ![poll.key].threw = Bump(@),
                                          ![poll.key].mismatched = Bump(@)]
    /\ UNCHANGED <<running, pollTimer, harnessVars, relayerVars, destVars, signerVars, lifeVars>>

\* step 5: the sign requests are sent and at least one signature comes back
CollectForMessage ==
    /\ poll.pc = "collect"
    /\ poll' = [poll EXCEPT !.pc = "submit"]
    /\ calls' = [calls EXCEPT ![poll.key].signed = Bump(@)]
    /\ UNCHANGED <<running, pollTimer, processedMessages, harnessVars, relayerVars, destVars, signerVars, lifeVars>>

\* step 5: the sign requests are sent and no signature comes back
CollectForMessageFails ==
    /\ poll.pc = "collect"
    /\ Throws(poll.key, "Failed to collect any signatures")
    /\ calls' = [calls EXCEPT ![poll.key].signed = Bump(@), ![poll.key].threw = Bump(@)]
    /\ UNCHANGED <<running, pollTimer, harnessVars, relayerVars, destVars, signerVars, lifeVars>>

\* step 6: submitToDestination builds the proof and the deliver message
DeliverMessage ==
    /\ poll.pc = "submit"
    /\ Returns(poll.key)
    /\ calls' = [calls EXCEPT ![poll.key].proofs = Bump(@), ![poll.key].returned = Bump(@)]
    /\ UNCHANGED <<running, pollTimer, harnessVars, relayerVars, destVars, signerVars, lifeVars>>

\* step 6: submitToDestination throws (getSortedSignerOrder, getRelayerAddress)
DeliverMessageThrows ==
    /\ poll.pc = "submit"
    /\ Throws(poll.key, "Invalid bech32 address")
    /\ calls' = [calls EXCEPT ![poll.key].threw = Bump(@)]
    /\ UNCHANGED <<running, pollTimer, harnessVars, relayerVars, destVars, signerVars, lifeVars>>

\* the loop is over: if (this.running) this.pollTimer = setTimeout(poll, ...)
FinishPoll ==
    /\ poll.pc = "loop"
    /\ poll.i > Len(poll.events)
    /\ pollTimer' = running
    /\ poll' = [poll EXCEPT !.pc = "none"]
    /\ UNCHANGED <<running, processedMessages, calls, harnessVars, relayerVars, destVars, signerVars, lifeVars>>

\* the steps of the relayer when its requests are answered
NextPollLive ==
    \/ Start
    \/ PollTimerFires
    \/ QueryEvents
    \/ SkipProcessed
    \/ ProcessMessage
    \/ CheckDestination
    \/ CompareDigest
    \/ CollectForMessage
    \/ DeliverMessage
    \/ FinishPoll

NextPoll ==
    \/ NextPollLive
    \/ Stop
    \/ SnapshotFails
    \/ CollectForMessageFails
    \/ DeliverMessageThrows

SpecPoll == InitPoll /\ [][NextPoll]_vars

\* the relayer is started and never stopped, every request is answered, and
\* the event loop runs every callback that is ready
SpecPollLive == InitPoll /\ [][NextPollLive]_vars /\ WF_vars(NextPollLive)

----------------------------------------------------------------------------
(* The polling loop: digest mismatches, deduplication, retries, liveness *)

\* the relayer's digest of the event's message differs from the event's
Mismatches(event) ==
    HexOf(computeMessageDigest(RelayerMessage(event))) # event.digest_hex

ForConfiguredDestination(event) == SplitBar(event.route)[2] = DstchainId

\* C27: for an event whose digest_hex differs from the digest the relayer
\* recomputes, no sign request is sent, no proof is built and the key is not
\* recorded as processed; the mismatch ends processMessage with the error.
C27_MismatchBeforeSigning ==
    \A e \in PollEvents :
        (ForConfiguredDestination(e) /\ Mismatches(e)) =>
            LET key == MessageKey(e)
            IN  /\ calls[key].signed = 0
                /\ calls[key].proofs = 0
                /\ calls[key].returned = 0
                /\ key \notin processedMessages
                /\ (InProcessMessage /\ poll.key = key) => poll.pc \in {"start", "routed"}

\* processMessage has thrown 'Digest mismatch' for the event with a body
C27_Witness ==
    /\ Mismatches(BodyEvent)
    /\ calls[MessageKey(BodyEvent)].mismatched > 0
    /\ calls[MessageKey(BodyEvent)].signed = 0
    /\ poll.outcome = "Digest mismatch"
    /\ poll.pc = "loop"

\* a delivery has been built for the event's message
Delivered(event) == calls[MessageKey(event)].proofs > 0

\* C28: with the relayer running and every request answered, every message
\* sent on the origin chain for the configured destination is eventually
\* processed: a delivery is built for it.
C28_EventuallyDelivered ==
    \A e \in PollEvents :
        ((\E n \in 1..Len(args.chain) : args.chain[n] = e) /\ ForConfiguredDestination(e))
            => <>Delivered(e)

C31_ProcessedMeansDelivered ==
    \A k \in PollKeys :
        k \in processedMessages => (calls[k].signed > 0 /\ calls[k].proofs > 0)

----------------------------------------------------------------------------
(* relayer.ts: start() and stop() called at any time. Each poll callback is
   in flight while it awaits processNewMessages; what it does with the events
   is the polling loop above. pollTimer here says that the timer the field
   this.pollTimer refers to is still pending. *)

\* start() is called at most this many times
MaxStarts == 3

InitLife ==
    /\ RelayerIdle
    /\ DestIdle
    /\ SignerIdle
    /\ args = "none"
    /\ ret = "none"
    /\ running = FALSE
    /\ pollTimer = FALSE
    /\ processedMessages = {}
    /\ poll = [pc |-> "none"]
    /\ calls = <<>>
    /\ LifeIdle

lifeFrame == <<processedMessages, poll, calls, harnessVars, relayerVars, destVars, signerVars>>

\* start() is called and awaits connectToChains
CallStart ==
    /\ starts < MaxStarts
    /\ starts' = starts + 1
    /\ connecting' = connecting + 1
    /\ lastCall' = "start"
    /\ UNCHANGED <<running, pollTimer, inFlight, timers, lifeFrame>>

\* connectToChains resolves: running = true, startPolling calls poll(), which
\* finds running true and awaits processNewMessages
ConnectSucceeds ==
    /\ connecting > 0
    /\ connecting' = connecting - 1
    /\ running' = TRUE
    /\ inFlight' = inFlight + 1
    /\ UNCHANGED <<pollTimer, timers, lastCall, starts, lifeFrame>>

\* connectToChains rejects and so does start()
ConnectFails ==
    /\ connecting > 0
    /\ connecting' = connecting - 1
    /\ UNCHANGED <<running, pollTimer, inFlight, timers, lastCall, starts, lifeFrame>>

\* stop(): running = false, clearTimeout(this.pollTimer)
CallStop ==
    /\ running' = FALSE
    /\ pollTimer' = FALSE
    /\ timers' = IF pollTimer THEN timers - 1 ELSE timers
    /\ lastCall' = "stop"
    /\ UNCHANGED <<connecting, inFlight, starts, lifeFrame>>

\* processNewMessages settles: if (this.running) this.pollTimer = setTimeout(poll, ...)
PollFinishes ==
    /\ inFlight > 0
    /\ inFlight' = inFlight - 1
    /\ timers' = IF running THEN timers + 1 ELSE timers
    /\ pollTimer' = (running \/ pollTimer)
    /\ UNCHANGED <<running, connecting, lastCall, starts, lifeFrame>>

\* what poll() does when a timer calls it: if (!this.running) return
PollBegins == inFlight' = IF running THEN inFlight + 1 ELSE inFlight

\* the timer this.pollTimer refers to fires
FieldTimerFires ==
    /\ pollTimer
    /\ pollTimer' = FALSE
    /\ timers' = timers - 1
    /\ PollBegins
    /\ UNCHANGED <<running, connecting, lastCall, starts, lifeFrame>>

\* a pending timer this.pollTimer no longer refers to fires
OtherTimerFires ==
    /\ timers > (IF pollTimer THEN 1 ELSE 0)
    /\ timers' = timers - 1
    /\ PollBegins
    /\ UNCHANGED <<running, pollTimer, connecting, lastCall, starts, lifeFrame>>

NextLife ==
    \/ CallStart
    \/ ConnectSucceeds
    \/ ConnectFails
    \/ CallStop
    \/ PollFinishes
    \/ FieldTimerFires
    \/ OtherTimerFires

SpecLife == InitLife /\ [][NextLife]_vars

\* C32: at any moment at most one processNewMessages run is in flight and at
\* most one poll timer is pending, and never both.
C32_PollsNeverOverlap == inFlight + timers <= 1

\* C33: from a call of stop() until the next call of start(), no poll begins
\* and no poll timer is scheduled; and no poll begins while no connectToChains
\* has succeeded.
C33_NoPollAfterStop ==
    /\ [][(lastCall = "stop" /\ lastCall' = "stop")
              => (inFlight' <= inFlight /\ timers' <= timers)]_vars
    /\ [](inFlight + timers > 0 => starts > connecting)

----------------------------------------------------------------------------
(* Signature collection: one signature per operator and per daemon *)

\* C34: the signatures collected hold at most one signature per validator
\* operator, and no more signatures than there are signing daemons.
C34_OnePerOperatorAndDaemon ==
    /\ \A i, j \in 1..Len(signatures) :
           i # j => signatures[i].operatorAddress # signatures[j].operatorAddress
    /\ Len(signatures) <= Cardinality(Daemons)

----------------------------------------------------------------------------
(* canonical.ts: the preimages of two messages *)

\* longest identifier in the pairs of messages
MaxFieldLen == 2

FieldStrings == SeqsUpTo({"a"}, MaxFieldLen)

\* nonces 0, 1 and 2^64 as JavaScript numbers; 2^64 is what parseInt gives
\* processMessage for the event nonce "18446744073709551615"
PairNonces == {<<0, 0, 0, 0, 0>>, <<0, 0, 0, 0, 1>>, ParseInt(<<65535, 65535, 65535, 65535>>)}

PairMessages ==
    [originChainId : FieldStrings, destChainId : SeqsUpTo({"a"}, 1), nonce : PairNonces,
     senderModule : {<<"a">>}, recipientModule : SeqsUpTo({"a"}, 1),
     body : {<<>>, <<97>>}, valsetId : {<<0, 0, 0, 0, 1>>, <<0, 0, 0, 0, 2>>}]

InitPair ==
    /\ RelayerIdle
    /\ DestIdle
    /\ SignerIdle
    /\ PollIdle
    /\ LifeIdle
    /\ \E first \in PairMessages, second \in PairMessages :
           args = [first |-> first, second |-> second]
    /\ ret = [step |-> "start"]

\* computeMessageDigest is called for both messages
CallComputeBothDigests ==
    /\ ret.step = "start"
    /\ ret' = [step |-> "digested",
               first |-> computeMessageDigest(args.first),
               second |-> computeMessageDigest(args.second)]
    /\ UNCHANGED <<args, relayerVars, destVars, signerVars, pollVars, lifeVars>>

NextPair == CallComputeBothDigests

SpecPair == InitPair /\ [][NextPair]_vars

\* C35: two messages with the same encoded bytes (the digest's preimage) are
\* the same message.
C35_EncodingInjective ==
    (ret.step = "digested" /\ ret.first[2] = ret.second[2]) => args.first = args.second

----------------------------------------------------------------------------
(* bitmap.ts: canonical bitmaps, single bits *)

\* C36: in every bitmap createBitmap returns, the bits at positions from
\* totalValidators upwards are zero and the number of set bits is the number
\* of distinct input indices in [0, totalValidators).
C36_BitmapCanonical ==
    ret.step \in {"created", "parsed"} =>
        /\ \A p \in args.totalValidators..(8 * Len(ret.bitmap) - 1) :
               ~LayoutBit(ret.bitmap, p)
        /\ PopCount(ret.bitmap) =
               Cardinality({i \in Range(args.validatorIndices) :
                                i >= 0 /\ i < args.totalValidators})

\* createBitmap([1, 1, 5], 3), with a duplicate and an index that would fall
\* on a padding bit, returned one byte with only bit 1 set
C36_Witness ==
    /\ ret.step = "created"
    /\ args.totalValidators = 3
    /\ args.validatorIndices = <<1, 1, 5>>
    /\ ret.bitmap = <<2>>

\* a % b of JavaScript for b > 0: the result has the sign of a
JsRem(a, b) == IF a >= 0 THEN a % b ELSE 0 - ((0 - a) % b)

\* a clearing that zeroes the whole byte
ClearByte(byte, bitPos) == 0

\* byte & ~(1 << bitPos)
AndNotBit(byte, bitPos) == IF BitIsSet(byte, bitPos) THEN byte - Pow2(bitPos) ELSE byte

\* isBitSet(bitmap, validatorIndex); bitmap[byteIdx] of a negative byteIdx is
\* undefined, and undefined & mask is 0
isBitSet(bitmap, validatorIndex) ==
    LET byteIdx == validatorIndex \div 8
        bitPos == JsRem(validatorIndex, 8)
    IN  IF byteIdx >= Len(bitmap) THEN FALSE
        ELSE IF byteIdx < 0 THEN FALSE
        ELSE BitIsSet(bitmap[byteIdx + 1], bitPos)

\* setBit(bitmap, validatorIndex); a store to a negative index of a Uint8Array
\* is ignored
setBit(bitmap, validatorIndex) ==
    LET byteIdx == validatorIndex \div 8
        bitPos == JsRem(validatorIndex, 8)
    IN  IF byteIdx < Len(bitmap)
        THEN (IF byteIdx < 0 THEN bitmap
              ELSE [bitmap EXCEPT ![byteIdx + 1] = OrBit(@, bitPos)])
        ELSE bitmap

\* clearBit(bitmap, validatorIndex)
clearBit(bitmap, validatorIndex) ==
    LET byteIdx == validatorIndex \div 8
        bitPos == JsRem(validatorIndex, 8)
    IN  IF byteIdx < Len(bitmap)
        THEN (IF byteIdx < 0 THEN bitmap
              ELSE [bitmap EXCEPT ![byteIdx + 1] = AndNotBit(@, bitPos)])
        ELSE bitmap

NegBits == 9         \* how far below zero the indices passed to setBit, clearBit and isBitSet go
MaxBit == 17         \* largest index passed to them
MaxBitCalls == 2     \* calls of setBit and clearBit on one byte array

\* the indices passed to setBit, clearBit and isBitSet
BitIndices == (0 - NegBits)..MaxBit

\* the bytes the arrays start from
BitByteValues == {0, 1, 128, 170, 255}

InitBits ==
    /\ RelayerIdle
    /\ DestIdle
    /\ SignerIdle
    /\ PollIdle
    /\ LifeIdle
    /\ args \in SeqsUpTo(BitByteValues, MaxBytes)
    /\ ret = [op |-> "none", calls |-> 0, bitmap |-> args]

\* setBit(bitmap, i) on the array as the calls before left it
CallSetBit ==
    /\ ret.calls < MaxBitCalls
    /\ \E i \in BitIndices :
           ret' = [op |-> "setBit", calls |-> ret.calls + 1, index |-> i,
                   before |-> ret.bitmap, bitmap |-> setBit(ret.bitmap, i)]
    /\ UNCHANGED <<args, relayerVars, destVars, signerVars, pollVars, lifeVars>>

CallClearBit ==
    /\ ret.calls < MaxBitCalls
    /\ \E i \in BitIndices :
           ret' = [op |-> "clearBit", calls |-> ret.calls + 1, index |-> i,
                   before |-> ret.bitmap, bitmap |-> clearBit(ret.bitmap, i)]
    /\ UNCHANGED <<args, relayerVars, destVars, signerVars, pollVars, lifeVars>>

NextBits == CallSetBit \/ CallClearBit

SpecBits == InitBits /\ [][NextBits]_vars

\* i is a bit of the byte array
InArray(bitmap, i) == i >= 0 /\ i < 8 * Len(bitmap)

\* C37: setBit and clearBit change only bit i, which isBitSet then reports
\* set (cleared); a second call changes nothing; for an index outside the
\* byte array the array is unchanged and isBitSet is false.
C37_SingleBitFrame ==
    ret.op \in {"setBit", "clearBit"} =>
        LET i == ret.index
            again == IF ret.op = "setBit" THEN setBit(ret.bitmap, i)
                     ELSE clearBit(ret.bitmap, i)
        IN  /\ Len(ret.bitmap) = Len(ret.before)
            /\ \A j \in BitIndices \ {i} :
                   isBitSet(ret.bitmap, j) = isBitSet(ret.before, j)
            /\ \A p \in (0..(8 * Len(ret.bitmap) - 1)) \ {i} :
                   LayoutBit(ret.bitmap, p) = LayoutBit(ret.before, p)
            /\ again = ret.bitmap
            /\ InArray(ret.before, i) =>
                   /\ isBitSet(ret.bitmap, i) = (ret.op = "setBit")
                   /\ LayoutBit(ret.bitmap, i) = (ret.op = "setBit")
            /\ ~InArray(ret.before, i) =>
                   /\ ret.bitmap = ret.before
                   /\ ~isBitSet(ret.bitmap, i)

\* clearBit(b, 9) after setBit(.., 9) on two bytes: bit 1 of byte 1 went from
\* set to cleared and byte 0 kept its bits
C37_Witness ==
    /\ ret.op = "clearBit"
    /\ ret.calls = 2
    /\ ret.index = 9
    /\ ret.before = <<170, 2>>
    /\ ret.bitmap = <<170, 0>>

----------------------------------------------------------------------------
(* The signing daemon (Go): main, NewServer and the key store file. A file is
   missing, unreadable, malformed or holds the JSON of a key store. *)

\* the file at the key store path
File(state, keys) == [state |-> state, keys |-> keys]

\* a nil error
Nil == [kind |-> "nil"]

\* a *PathError of the os package
PathError(errno) == [kind |-> "PathError", errno |-> errno]

\* fmt.Errorf("...: %w", err)
Errorf(message, err) == [kind |-> "wrapError", message |-> message, cause |-> err]

\* os.IsNotExist: it looks inside the error types of the os package only, an
\* error wrapped by fmt.Errorf is not unwrapped
OsIsNotExist(err) == err.kind = "PathError" /\ err.errno = "ENOENT"

\* keys.LoadKeyStore
LoadKeyStore(file) ==
    IF file.state = "missing"
    THEN [keyStore |-> <<>>, err |-> Errorf("failed to read key store file", PathError("ENOENT"))]
    ELSE IF file.state = "unreadable"
    THEN [keyStore |-> <<>>, err |-> Errorf("failed to read key store file", PathError("EACCES"))]
    ELSE IF file.state = "malformed"
    THEN [keyStore |-> <<>>, err |-> Errorf("failed to unmarshal key store", [kind |-> "SyntaxError"])]
    ELSE [keyStore |-> file.keys, err |-> Nil]

\* KeyStore.SaveKeyStore: os.WriteFile fails when the path cannot be written
SaveKeyStoreFails(writable) == ~writable

\* sampleOperators of CreateSampleKeyStore
SampleOperators == {<<"a", "1", "a">>, <<"b", "1", "a">>, <<"c", "1", "a">>, <<"d", "1", "a">>}

\* the private keys GenerateKey may return
GeneratedKeys == {"key1", "key2"}

\* keys.CreateSampleKeyStore: a fresh key for each sample operator
CreateSampleKeyStore == [SampleOperators -> GeneratedKeys]

\* NewServer with the sample key store it would create
NewServer(file, writable, sample) ==
    LET loaded == LoadKeyStore(file)
    IN  IF loaded.err # Nil
        THEN IF OsIsNotExist(loaded.err)
             THEN IF SaveKeyStoreFails(writable)
                  THEN [server |-> "nil", err |-> "failed to save sample key store",
                        keyStore |-> <<>>, file |-> file]
                  ELSE [server |-> "server", err |-> "nil", keyStore |-> sample,
                        file |-> File("stored", sample)]
             ELSE [server |-> "nil", err |-> "failed to load key store",
                   keyStore |-> <<>>, file |-> file]
        ELSE [server |-> "server", err |-> "nil", keyStore |-> loaded.keyStore, file |-> file]

\* the files the daemon may find at the key store path
KeyStoreFiles ==
    {File("missing", <<>>), File("unreadable", <<>>), File("malformed", <<>>)}
        \cup {File("stored", keys) : keys \in KeyStores}

InitMain ==
    /\ RelayerIdle
    /\ DestIdle
    /\ SignerIdle
    /\ PollIdle
    /\ LifeIdle
    /\ args \in [generate : BOOLEAN, file : KeyStoreFiles, writable : BOOLEAN]
    /\ ret = [step |-> "start", file |-> args.file]

\* main with -generate: the sample key store is saved and, for each operator,
\* the public key of a key just returned by GenerateKey is printed (the copy
\* into privateKey.D.Bytes() writes to a temporary slice)
MainGenerate ==
    /\ ret.step = "start"
    /\ args.generate
    /\ \E sample \in CreateSampleKeyStore, fresh \in [SampleOperators -> GeneratedKeys] :
           ret' = IF SaveKeyStoreFails(args.writable)
                  THEN [step |-> "fatal", file |-> ret.file]
                  ELSE [step |-> "exited", file |-> File("stored", sample),
                        printed |-> [op \in DOMAIN sample |->
                                        PublicKeyHex(<<"priv", fresh[op]>>)]]
    /\ UNCHANGED <<args, relayerVars, destVars, signerVars, pollVars, lifeVars>>

\* main without -generate: NewServer, then server.Start
MainNewServer ==
    /\ ret.step = "start"
    /\ ~args.generate
    /\ \E sample \in CreateSampleKeyStore :
           LET made == NewServer(ret.file, args.writable, sample)
           IN  /\ ret' = [step |-> (IF made.err = "nil" THEN "serving" ELSE "fatal"),
                          file |-> made.file, err |-> made.err]
               /\ keyStore' = made.keyStore
    /\ UNCHANGED <<args, signLog, keyUses, relayerVars, destVars, pollVars, lifeVars>>

ServeSign == ret.step = "serving" /\ HandleSign

ServeHealth == ret.step = "serving" /\ HandleHealth

ServePubKeys == ret.step = "serving" /\ HandlePubKeys

NextMain ==
    \/ MainGenerate
    \/ MainNewServer
    \/ ServeSign
    \/ ServeHealth
    \/ ServePubKeys

SpecMain == InitMain /\ [][NextMain]_vars

\* C38: when the key store file does not exist and the path can be written,
\* NewServer succeeds: the server runs with a sample key store, which is the
\* content of the file; NewServer fails for an unreadable or malformed file.
C38_MissingFileCreatesSample ==
    (~args.generate /\ ret.step # "start") =>
        /\ (args.file.state = "missing" /\ args.writable) =>
               /\ ret.step = "serving"
               /\ DOMAIN keyStore = SampleOperators
               /\ ret.file = File("stored", keyStore)
        /\ args.file.state \in {"unreadable", "malformed"} => ret.step = "fatal"

\* C39: for every operator of a generated key store, the public key printed
\* by -generate is the public key of the private key stored for the operator,
\* the one /pubkeys reports for that store.
C39_PrintedKeyIsStoredKey ==
    ret.step = "exited" =>
        \A op \in DOMAIN ret.file.keys :
            /\ ret.printed[op] = PublicKeyHex(GetPrivateKey(ret.file.keys, op))
            /\ ret.printed[op] = handlePubKeys(ret.file.keys, "GET").publicKeys[op]

====
